---- MODULE Spec2Model ----
(***************************************************************************)
(* State-machine model of the GrimSwap ZK SDK (src/sdk) and of the Merkle  *)
(* circuit (src/unnamed/part_003).                                         *)
(*                                                                         *)
(* Field values are modelled symbolically as flat sequences of integers:   *)
(* the field element n is <<n>>, the Poseidon digest of k inputs is the    *)
(* prefix-notation word <<-k>> \o input_1 \o ... \o input_k.  Prefix words *)
(* over symbols of known arity decode uniquely, so the modelled hash is    *)
(* collision-free and never equals a plain field element (the idealisation *)
(* the Merkle claims assume).  JavaScript's undefined is the empty word.   *)
(***************************************************************************)
EXTENDS Integers, Sequences, FiniteSets, TLC

\* ------------------------------------------------------------------ bounds
MaxHeight == 2
MaxLeaves == 5
MaxLeavesTwo == 3
CircuitLevels == 2
NumCallers == 2
MaxRandom == 3
MaxAmount == 1

VARIABLES
    trees,      \* the MerkleTree instances
    ret,        \* outcome of the latest MerkleTree call
    hist,       \* per tree, getRoot() as observed after each insert
    check,      \* latest verifyMerkleProof call next to the circuit's verdict
    poseidon,   \* commitment.ts: the cached hasher (0 while unset)
    F,          \* commitment.ts: the cached hasher's field object (0 while unset)
    builds,     \* number of buildPoseidon() invocations so far
    pc,         \* per caller, where its initPoseidon/poseidonHash call stands
    callee,     \* per caller, the function it called
    inst,       \* per caller, the hasher its pending buildPoseidon() resolves to
    used,       \* per caller, the hasher its latest poseidonHash ran on
    created,    \* latest createDepositNote result
    rebuilt,    \* latest reconstructDepositNote result
    serialized, \* latest serializeNote call: the note and the string returned
    deserialized, \* latest deserializeNote call: the string and the outcome
    keccakSeed, \* the digest function keccak_256 stands for
    keys,       \* per recipient, the generateStealthKeys result
    stealth,    \* latest generateStealthAddress call and its result
    checked,    \* latest checkStealthAddress call and its result
    derived,    \* latest deriveStealthPrivateKey call, its key's address
    gotLogs,    \* what getLogs resolves to in the scanAnnouncements call
    scanned,    \* latest scanAnnouncements call: the payments returned
    mempool,    \* the announcements senders have submitted, by kind
    chain,      \* the announcer's log: per mined block, its entry if any
    initialFromBlock, \* params.fromBlock ?? 0n of watchAnnouncements
    lastBlock,  \* watchAnnouncements: the watermark
    isRunning,  \* watchAnnouncements: cleared by the stop handle
    pollPc,     \* where the poll loop stands
    scanFromBlock, \* fromBlock of the scan in flight
    fetched,    \* the logs the scan in flight got from getLogs
    resolved,   \* the payments the scan in flight resolved to
    delivered,  \* the payments passed to onPayment, in order
    fee,        \* circuit: the fee signals of a witness and the verdict
    formatted,   \* latest formatProofForContract call and its result
    proofInput,   \* latest generateProof call: the circuit input it built
    claim,   \* claimStealthTokens: where the call stands, what it read and sent
    swap,   \* executePrivateSwap: where the call stands, what it invoked
    race,   \* overlapping insert calls on one MerkleTree
    deposits    \* fetchDeposits: the pool's logs, the call and what it returned

treeVars == <<trees, ret, hist>>
verifyVars == <<check>>
poseidonVars == <<poseidon, F, builds, pc, callee, inst, used>>
noteVars == <<created, rebuilt>>
serialVars == <<serialized, deserialized>>
coreVars == <<treeVars, verifyVars, poseidonVars, noteVars>>
stealthVars == <<keccakSeed, keys, stealth, checked, derived>>
scanVars == <<gotLogs, scanned>>
watchVars == <<mempool, chain, initialFromBlock, lastBlock, isRunning,
               pollPc, scanFromBlock, fetched, resolved, delivered>>
scanWatchVars == <<scanVars, watchVars>>
lateVars == <<fee, formatted, proofInput, claim, swap, race, deposits>>
restVars == <<serialVars, stealthVars, scanWatchVars, lateVars>>
vars == <<coreVars, restVars>>

\* --------------------------------------------------------------- JS helpers
Undefined == <<>>

\* JavaScript's remainder keeps the sign of the dividend (-1 % 2 is -1).
JsMod(a, b) == IF a >= 0 THEN a % b ELSE 0 - ((0 - a) % b)

\* Math.floor(a / 2)
FloorHalf(a) == a \div 2

\* arr[i] of a (sparse) zero-based JavaScript array held as a function.
At(arr, i) == IF i \in DOMAIN arr THEN arr[i] ELSE Undefined

\* s[i] of a dense zero-based JavaScript array held as a sequence.
SeqAt(s, i) == IF i + 1 \in DOMAIN s THEN s[i + 1] ELSE Undefined

\* arr[i] = v
Put(arr, i, v) == [j \in (DOMAIN arr) \cup {i} |-> IF j = i THEN v ELSE arr[j]]

\* a ?? b
Coalesce(a, b) == IF a # Undefined THEN a ELSE b

\* Truthiness of a bigint-or-undefined value: undefined and 0n are falsy.
Truthy(v) == v # Undefined /\ v # <<0>>

\* ------------------------------------------------------------ hash adapter
RECURSIVE Flatten(_)
Flatten(inputs) ==
    IF inputs = <<>> THEN <<>> ELSE Head(inputs) \o Flatten(Tail(inputs))

poseidonHash(inputs) == <<0 - Len(inputs)>> \o Flatten(inputs)

\* ------------------------------------------------------------- Merkle tree
\* Stand-in for the 254-bit constant; only its identity matters.
ZERO_VALUE == <<21663>>

\* new MerkleTree(height)
NewMerkleTree(height) ==
    [height |-> height, leaves |-> <<>>, zeros |-> <<>>, layers |-> <<>>]

RECURSIVE ZerosUpTo(_)
ZerosUpTo(i) ==
    IF i = 0 THEN <<ZERO_VALUE>>
    ELSE LET prev == ZerosUpTo(i - 1)
             prevZero == prev[i]
         IN  Append(prev, poseidonHash(<<prevZero, prevZero>>))

initialize(tr) ==
    [tr EXCEPT !.zeros = ZerosUpTo(tr.height),
               !.layers = [i \in 1..(tr.height + 1) |-> <<>>]]

RECURSIVE UpdateLoop(_, _, _, _, _)
UpdateLoop(tr, layers, level, currentIndex, currentValue) ==
    IF level >= tr.height THEN layers
    ELSE LET isLeft == JsMod(currentIndex, 2) = 0
             siblingIndex == IF isLeft THEN currentIndex + 1 ELSE currentIndex - 1
             sibling == Coalesce(At(layers[level + 1], siblingIndex),
                                 SeqAt(tr.zeros, level))
             left == IF isLeft THEN currentValue ELSE sibling
             right == IF isLeft THEN sibling ELSE currentValue
             parent == poseidonHash(<<left, right>>)
             parentIndex == FloorHalf(currentIndex)
         IN  UpdateLoop(tr,
                        [layers EXCEPT ![level + 2] = Put(@, parentIndex, parent)],
                        level + 1, parentIndex, parent)

updateTree(tr, index) ==
    LET currentValue == SeqAt(tr.leaves, index)
        layers0 == [tr.layers EXCEPT ![1] = Put(@, index, currentValue)]
    IN  [tr EXCEPT !.layers = UpdateLoop(tr, layers0, 0, index, currentValue)]

\* The tree after insert(leaf) and the index it returns.
InsertIndexAfterPush(tr, leaf) ==
    LET t0 == IF Len(tr.zeros) = 0 THEN initialize(tr) ELSE tr
        t1 == [t0 EXCEPT !.leaves = Append(@, leaf)]
    IN  [tree |-> updateTree(t1, Len(t1.leaves) - 1), index |-> Len(t1.leaves)]

InsertLazySkipsUpdate(tr, leaf) ==
    LET t0 == IF Len(tr.zeros) = 0 THEN initialize(tr) ELSE tr
        index == Len(t0.leaves)
        t1 == [t0 EXCEPT !.leaves = Append(@, leaf)]
    IN  [tree |-> IF Len(tr.zeros) = 0 THEN t1 ELSE updateTree(t1, index),
         index |-> index]

insert(tr, leaf) ==
    LET t0 == IF Len(tr.zeros) = 0 THEN initialize(tr) ELSE tr
        index == Len(t0.leaves)
        t1 == [t0 EXCEPT !.leaves = Append(@, leaf)]
    IN  [tree |-> updateTree(t1, index), index |-> index]

getRoot(tr) ==
    IF tr.height + 1 \in DOMAIN tr.layers /\ Truthy(At(tr.layers[tr.height + 1], 0))
    THEN tr.layers[tr.height + 1][0]
    ELSE SeqAt(tr.zeros, tr.height)

leafCount(tr) == Len(tr.leaves)

RECURSIVE ProofLoop(_, _, _, _, _)
ProofLoop(tr, level, currentIndex, pathElements, pathIndices) ==
    IF level >= tr.height
    THEN [pathElements |-> pathElements, pathIndices |-> pathIndices]
    ELSE LET isLeft == JsMod(currentIndex, 2) = 0
             siblingIndex == IF isLeft THEN currentIndex + 1 ELSE currentIndex - 1
             sibling == Coalesce(At(tr.layers[level + 1], siblingIndex),
                                 SeqAt(tr.zeros, level))
         IN  ProofLoop(tr, level + 1, FloorHalf(currentIndex),
                       Append(pathElements, sibling),
                       Append(pathIndices, IF isLeft THEN 0 ELSE 1))

NoProof == [root |-> Undefined, pathElements |-> <<>>, pathIndices |-> <<>>]

\* getProof(leafIndex): error "" means a proof was returned.
getProof(tr, leafIndex) ==
    IF leafIndex >= Len(tr.leaves)
    THEN [error |-> "Leaf index out of bounds", proof |-> NoProof]
    ELSE IF tr.height > 0 /\ Len(tr.layers) = 0
    THEN [error |-> "TypeError", proof |-> NoProof]
    ELSE LET path == ProofLoop(tr, 0, leafIndex, <<>>, <<>>)
         IN  [error |-> "",
              proof |-> [root |-> getRoot(tr),
                         pathElements |-> path.pathElements,
                         pathIndices |-> path.pathIndices]]

RECURSIVE VerifyLoop(_, _, _)
VerifyLoop(proof, i, current) ==
    IF i >= Len(proof.pathElements) THEN current
    ELSE LET sibling == SeqAt(proof.pathElements, i)
             isLeft == SeqAt(proof.pathIndices, i) = 0
             left == IF isLeft THEN current ELSE sibling
             right == IF isLeft THEN sibling ELSE current
         IN  VerifyLoop(proof, i + 1, poseidonHash(<<left, right>>))

verifyMerkleProof(leaf, proof) == VerifyLoop(proof, 0, leaf) = proof.root

\* ------------------------------------------- circuit: MerkleTreeChecker
\* DualMux: sel * (1 - sel) === 0; out = [in0, in1] for sel = 0 and
\* [in1, in0] for sel = 1 (the two values the constraint leaves for sel).
DualMux(in0, in1, sel) ==
    [ok |-> sel * (1 - sel) = 0,
     out0 |-> IF sel = 0 THEN in0 ELSE in1,
     out1 |-> IF sel = 0 THEN in1 ELSE in0]

Switcher(sel, L, R) ==
    LET mux == DualMux(L, R, sel)
    IN  [ok |-> mux.ok, outL |-> mux.out0, outR |-> mux.out1]

\* hashes[i + 1] from hashes[i], for i = level .. levels - 1; ok is the
\* conjunction of the constraints met on the way.
RECURSIVE CheckerLoop(_, _, _, _, _)
CheckerLoop(levels, pathElements, pathIndices, i, hash) ==
    IF i >= levels THEN [ok |-> TRUE, hash |-> hash]
    ELSE LET sel == pathIndices[i + 1]
             binary == sel * (1 - sel) = 0
             sw == Switcher(sel, hash, pathElements[i + 1])
             rest == CheckerLoop(levels, pathElements, pathIndices, i + 1,
                                 poseidonHash(<<sw.outL, sw.outR>>))
         IN  [ok |-> binary /\ sw.ok /\ rest.ok, hash |-> rest.hash]

\* TRUE iff the signals satisfy every constraint of MerkleTreeChecker(levels).
MerkleTreeChecker(levels, leaf, root, pathElements, pathIndices) ==
    /\ Len(pathElements) = levels
    /\ Len(pathIndices) = levels
    /\ LET r == CheckerLoop(levels, pathElements, pathIndices, 0, leaf)
       IN  r.ok /\ root = r.hash

\* ------------------------------------------------------ commitment / notes
\* The BN254 modulus, scaled down to a small prime.
FIELD_SIZE == 3

\* num is the integer read from the 32 random bytes.
randomFieldElement(num) == num % FIELD_SIZE

\* A bigint as a hash input.
Fe(n) == <<n>>

ComputeCommitmentSwapped(nullifier, secret, amount) ==
    poseidonHash(<<Fe(secret), Fe(nullifier), Fe(amount)>>)

computeCommitment(nullifier, secret, amount) ==
    poseidonHash(<<Fe(nullifier), Fe(secret), Fe(amount)>>)

computeNullifierHash(nullifier) == poseidonHash(<<Fe(nullifier)>>)

\* leafIndex is {} for undefined and {i} for the index i.
Note(secret, nullifier, amount, commitment, nullifierHash, leafIndex) ==
    [present |-> TRUE, secret |-> secret, nullifier |-> nullifier,
     amount |-> amount, commitment |-> commitment,
     nullifierHash |-> nullifierHash, leafIndex |-> leafIndex]

NoNote ==
    [present |-> FALSE, secret |-> 0, nullifier |-> 0, amount |-> 0,
     commitment |-> Undefined, nullifierHash |-> Undefined, leafIndex |-> {}]

\* rnd1, rnd2: the two draws of randomBytes(32).
createDepositNote(amount, rnd1, rnd2) ==
    LET secret == randomFieldElement(rnd1)
        nullifier == randomFieldElement(rnd2)
        commitment == computeCommitment(nullifier, secret, amount)
        nullifierHash == computeNullifierHash(nullifier)
    IN  Note(secret, nullifier, amount, commitment, nullifierHash, {})

reconstructDepositNote(secret, nullifier, amount, leafIndex) ==
    LET commitment == computeCommitment(nullifier, secret, amount)
        nullifierHash == computeNullifierHash(nullifier)
    IN  Note(secret, nullifier, amount, commitment, nullifierHash, leafIndex)

\* ------------------------------------------------------ note serialization
\* A JS string is the sequence of its characters.
HexDigits == <<"0", "1", "2", "3", "4", "5", "6", "7",
               "8", "9", "a", "b", "c", "d", "e", "f">>

Dash == "-"

\* The "grimswap" tag and the "v1" version of the note format.
NoteTag == <<"g", "r", "i", "m", "s", "w", "a", "p">>

NoteVersion == <<"v", "1">>

\* padStart(64, "0") of the two secrets, scaled down with FIELD_SIZE.
PAD_WIDTH == 2

\* Largest amount a serialized note carries.
MaxNoteAmount == 17

RECURSIVE toString16(_)
\* bigint.toString(16): lower-case digits, a leading "-" below zero.
toString16(n) ==
    IF n < 0 THEN <<Dash>> \o toString16(0 - n)
    ELSE IF n < 16 THEN <<HexDigits[n + 1]>>
    ELSE toString16(n \div 16) \o <<HexDigits[(n % 16) + 1]>>

padStart(str, width, ch) ==
    IF Len(str) >= width THEN str
    ELSE [i \in 1..(width - Len(str)) |-> ch] \o str

\* Value of an upper-case hexadecimal letter.
HexValue10(ch) ==
    CASE ch = "A" -> 10 [] ch = "B" -> 11 [] ch = "C" -> 12
      [] ch = "D" -> 13 [] ch = "E" -> 14 [] ch = "F" -> 15

\* Value of one hexadecimal digit, -1 for any other character.
HexValue(ch) ==
    IF \E d \in 1..16 : HexDigits[d] = ch
    THEN (CHOOSE d \in 1..16 : HexDigits[d] = ch) - 1
    ELSE IF ch \in {"A", "B", "C", "D", "E", "F"}
    THEN HexValue10(ch)
    ELSE 0 - 1

RECURSIVE HexFold(_, _)
HexFold(str, acc) ==
    IF str = <<>> THEN acc
    ELSE HexFold(Tail(str), acc * 16 + HexValue(Head(str)))

\* BigInt("0x" + str): a SyntaxError unless str is one or more hex digits.
BigIntHex(str) ==
    IF str = <<>> \/ \E i \in 1..Len(str) : HexValue(str[i]) < 0
    THEN [ok |-> FALSE, value |-> 0]
    ELSE [ok |-> TRUE, value |-> HexFold(str, 0)]

RECURSIVE SplitLoop(_, _, _)
SplitLoop(str, cur, parts) ==
    IF str = <<>> THEN Append(parts, cur)
    ELSE IF Head(str) = Dash THEN SplitLoop(Tail(str), <<>>, Append(parts, cur))
    ELSE SplitLoop(Tail(str), Append(cur, Head(str)), parts)

\* str.split("-")
split(str) == SplitLoop(str, <<>>, <<>>)

RECURSIVE join(_)
\* The template literal of serializeNote: the fields with "-" between them.
join(parts) ==
    IF Len(parts) = 0 THEN <<>>
    ELSE IF Len(parts) = 1 THEN parts[1]
    ELSE parts[1] \o <<Dash>> \o join(Tail(parts))

SerializeNoteSwapped(note) ==
    join(<<NoteTag, NoteVersion,
           padStart(toString16(note.nullifier), PAD_WIDTH, "0"),
           padStart(toString16(note.secret), PAD_WIDTH, "0"),
           toString16(note.amount)>>)

serializeNote(note) ==
    LET secretHex == padStart(toString16(note.secret), PAD_WIDTH, "0")
        nullifierHex == padStart(toString16(note.nullifier), PAD_WIDTH, "0")
        amountHex == toString16(note.amount)
    IN  join(<<NoteTag, NoteVersion, secretHex, nullifierHex, amountHex>>)

\* The body of deserializeNote once the format check has passed.
ParseNoteFields(parts) ==
    LET secret == BigIntHex(parts[3])
        nullifier == BigIntHex(parts[4])
        amount == BigIntHex(parts[5])
    IN  IF secret.ok /\ nullifier.ok /\ amount.ok
        THEN [error |-> "",
              note |-> reconstructDepositNote(secret.value, nullifier.value,
                                              amount.value, {})]
        ELSE [error |-> "SyntaxError", note |-> NoNote]

DeserializeNoteAnyVersion(noteString) ==
    LET parts == split(noteString)
    IN  IF Len(parts) # 5 \/ parts[1] # NoteTag
        THEN [error |-> "Invalid note format", note |-> NoNote]
        ELSE ParseNoteFields(parts)

\* The rejected promise is the error; note is NoNote then.
deserializeNote(noteString) ==
    LET parts == split(noteString)
    IN  IF Len(parts) # 5 \/ parts[1] # NoteTag \/ parts[2] # NoteVersion
        THEN [error |-> "Invalid note format", note |-> NoNote]
        ELSE ParseNoteFields(parts)

\* -------------------------------------------------------- bytes and hex
\* A Uint8Array is the sequence of its bytes; a hex string is a JS string.
\* An argument that is missing (undefined) is the one-element word below,
\* which is no string: calling .slice on it is a TypeError.
UndefinedArg == <<"undefined">>

HexPrefix == <<"0", "x">>

\* Strings that are no hex, or hex of odd length.
NotHex == <<"0", "x", "g", "1">>

OddHex == <<"0", "x", "2">>

\* str.slice(2)
slice2(str) == SubSeq(str, 3, Len(str))

\* bytes.slice(from, to) with 0 <= from
sliceBytes(bytes, from, to) ==
    SubSeq(bytes, from + 1, IF to < Len(bytes) THEN to ELSE Len(bytes))

\* bytes.slice(-count)
sliceLast(bytes, count) ==
    SubSeq(bytes, IF Len(bytes) > count THEN Len(bytes) - count + 1 ELSE 1,
           Len(bytes))

RECURSIVE bytesToHex(_)
\* @noble/hashes bytesToHex: two lower-case digits per byte.
bytesToHex(bytes) ==
    IF bytes = <<>> THEN <<>>
    ELSE <<HexDigits[(Head(bytes) \div 16) + 1],
           HexDigits[(Head(bytes) % 16) + 1]>> \o bytesToHex(Tail(bytes))

\* @noble/hashes hexToBytes: throws on an odd length or a non-hex character.
hexToBytes(hex) ==
    IF Len(hex) % 2 # 0 \/ \E i \in 1..Len(hex) : HexValue(hex[i]) < 0
    THEN [ok |-> FALSE, bytes |-> <<>>]
    ELSE [ok |-> TRUE,
          bytes |-> [i \in 1..(Len(hex) \div 2) |->
                        HexValue(hex[2 * i - 1]) * 16 + HexValue(hex[2 * i])]]

\* hexToBytes(arg.slice(2)) on an argument that may be missing.
HexArgToBytes(arg) ==
    IF arg = UndefinedArg THEN [ok |-> FALSE, bytes |-> <<>>]
    ELSE hexToBytes(slice2(arg))

\* BigInt(`0x${bytesToHex(bytes)}`)
BytesToBigInt(bytes) == BigIntHex(bytesToHex(bytes))

\* ------------------------------------------------------- keccak_256
\* Digests are DIGEST_LEN bytes (32, scaled down), each below DigestByte.
DIGEST_LEN == 3

DigestByte == 8

\* Last bytes of a digest that make an address (20, scaled down).
ADDRESS_LEN == 2

RECURSIVE ByteCode(_, _)
ByteCode(bytes, acc) ==
    IF bytes = <<>> THEN acc
    ELSE ByteCode(Tail(bytes), (acc * 31 + Head(bytes) + 1) % 1009)

RECURSIVE NumberToBytes(_, _)
\* The len-byte big-endian word of v, in bytes below DigestByte.
NumberToBytes(v, len) ==
    IF len = 0 THEN <<>>
    ELSE NumberToBytes(v \div DigestByte, len - 1) \o <<v % DigestByte>>

\* keccak_256 is one fixed member of this family of digest functions; the
\* constructed state picks the member (multiplier, shift).  Both members map
\* the points of the scaled curve to distinct scalars and distinct addresses,
\* as keccak does in practice; under the second a scalar h is 0.
KeccakFamily == {<<13, 5>>, <<13, 2>>}

keccak_256(bytes) ==
    NumberToBytes((ByteCode(bytes, 0) * keccakSeed[1] + keccakSeed[2])
                     % (DigestByte * DigestByte * DigestByte), DIGEST_LEN)

\* --------------------------------------------------------- secp256k1
\* The curve group is cyclic of prime order n: the point k*G is written k,
\* 0 is the point at infinity.  CURVE_N is secp256k1.CURVE.n, scaled down.
CURVE_N == 5

BASE == 1

\* Private keys are PRIVATE_KEY_LEN bytes (32, scaled down), compressed
\* points POINT_LEN bytes (33, scaled down): a parity prefix and x.
PRIVATE_KEY_LEN == 1

POINT_LEN == 2

META_ADDRESS_LENGTH == 4

\* k*G and -k*G share x; the prefix 2 or 3 tells them apart.
PointX(k) == IF 2 * k < CURVE_N THEN k ELSE CURVE_N - k

PointOdd(k) == IF 2 * k < CURVE_N THEN 0 ELSE 1

\* normPrivateKeyToScalar: throws unless 32 bytes with 0 < d < n.
PrivateKeyToScalar(privBytes) ==
    LET d == IF privBytes = <<>> THEN 0 ELSE BytesToBigInt(privBytes).value
    IN  IF Len(privBytes) = PRIVATE_KEY_LEN /\ d > 0 /\ d < CURVE_N
        THEN [ok |-> TRUE, scalar |-> d]
        ELSE [ok |-> FALSE, scalar |-> 0]

\* ProjectivePoint.fromHex on compressed bytes: throws unless on the curve.
fromHex(bytes) ==
    IF /\ Len(bytes) = POINT_LEN
       /\ bytes[1] \in {2, 3}
       /\ bytes[2] >= 1
       /\ 2 * bytes[2] < CURVE_N
    THEN [ok |-> TRUE,
          point |-> IF bytes[1] = 2 THEN bytes[2] ELSE CURVE_N - bytes[2]]
    ELSE [ok |-> FALSE, point |-> 0]

\* point.toRawBytes(isCompressed): throws on the point at infinity.
toRawBytes(point, isCompressed) ==
    IF point = 0 THEN [ok |-> FALSE, bytes |-> <<>>]
    ELSE IF isCompressed
         THEN [ok |-> TRUE, bytes |-> <<2 + PointOdd(point), PointX(point)>>]
         ELSE [ok |-> TRUE, bytes |-> <<4, PointX(point), PointOdd(point)>>]

\* point.multiply(scalar): throws unless 0 < scalar < n.
multiply(point, scalar) ==
    IF scalar > 0 /\ scalar < CURVE_N
    THEN [ok |-> TRUE, point |-> (point * scalar) % CURVE_N]
    ELSE [ok |-> FALSE, point |-> 0]

\* point.add(other)
add(point, other) == (point + other) % CURVE_N

\* secp256k1.getPublicKey(privateKey, isCompressed)
getPublicKey(privBytes, isCompressed) ==
    LET d == PrivateKeyToScalar(privBytes)
    IN  IF d.ok THEN toRawBytes(multiply(BASE, d.scalar).point, isCompressed)
        ELSE [ok |-> FALSE, bytes |-> <<>>]

\* secp256k1.getSharedSecret(privateKey, publicKey): the compressed product.
getSharedSecret(privBytes, pubBytes) ==
    LET d == PrivateKeyToScalar(privBytes)
        pub == fromHex(pubBytes)
    IN  IF d.ok /\ pub.ok
        THEN toRawBytes(multiply(pub.point, d.scalar).point, TRUE)
        ELSE [ok |-> FALSE, bytes |-> <<>>]

\* ----------------------------------------------------- stealth addresses
Hex(bytes) == HexPrefix \o bytesToHex(bytes)

PublicKeyToAddressConstant(publicKey) ==
    [ok |-> fromHex(publicKey).ok, address |-> Hex(<<0>>)]

\* stealthAddress.ts publicKeyToAddress, on compressed bytes.
publicKeyToAddress(publicKey) ==
    LET point == fromHex(publicKey)
        raw == toRawBytes(point.point, FALSE)
        uncompressed == sliceBytes(raw.bytes, 1, Len(raw.bytes))
        hash == keccak_256(uncompressed)
        addressBytes == sliceLast(hash, ADDRESS_LEN)
    IN  IF point.ok /\ raw.ok
        THEN [ok |-> TRUE, address |-> Hex(addressBytes)]
        ELSE [ok |-> FALSE, address |-> <<>>]

\* claim.ts privateKeyToAddress, on the hex private key.
privateKeyToAddress(privateKey) ==
    LET privBytes == hexToBytes(slice2(privateKey))
        pubKey == getPublicKey(privBytes.bytes, FALSE)
        pubKeyNoPrefix == sliceBytes(pubKey.bytes, 1, Len(pubKey.bytes))
        hash == keccak_256(pubKeyNoPrefix)
        addr == bytesToHex(sliceLast(hash, ADDRESS_LEN))
    IN  IF privBytes.ok /\ pubKey.ok
        THEN [ok |-> TRUE, address |-> HexPrefix \o addr]
        ELSE [ok |-> FALSE, address |-> <<>>]

NoKeys ==
    [present |-> FALSE, spendingPrivateKey |-> <<>>, spendingPublicKey |-> <<>>,
     viewingPrivateKey |-> <<>>, viewingPublicKey |-> <<>>,
     stealthMetaAddress |-> <<>>]

\* rndSpending, rndViewing: the two draws of randomPrivateKey(), as bytes.
generateStealthKeys(rndSpending, rndViewing) ==
    LET spendingPublicKey == getPublicKey(rndSpending, TRUE).bytes
        viewingPublicKey == getPublicKey(rndViewing, TRUE).bytes
        stealthMetaAddress == spendingPublicKey \o viewingPublicKey
    IN  [present |-> TRUE,
         spendingPrivateKey |-> Hex(rndSpending),
         spendingPublicKey |-> Hex(spendingPublicKey),
         viewingPrivateKey |-> Hex(rndViewing),
         viewingPublicKey |-> Hex(viewingPublicKey),
         stealthMetaAddress |-> Hex(stealthMetaAddress)]

StealthError(msg) ==
    [error |-> msg, stealthAddress |-> <<>>, ephemeralPubKey |-> <<>>,
     viewTag |-> 0]

\* ephemeralPrivateKey: the draw of randomPrivateKey(), as bytes.
generateStealthAddress(stealthMetaAddress, ephemeralPrivateKey) ==
    LET metaBytes == hexToBytes(slice2(stealthMetaAddress))
        spendingPubKey == sliceBytes(metaBytes.bytes, 0, POINT_LEN)
        viewingPubKey == sliceBytes(metaBytes.bytes, POINT_LEN, 2 * POINT_LEN)
        ephemeralPublicKey == getPublicKey(ephemeralPrivateKey, TRUE)
        sharedSecretPoint == getSharedSecret(ephemeralPrivateKey, viewingPubKey)
        sharedSecret == keccak_256(sharedSecretPoint.bytes)
        sharedSecretScalar == BytesToBigInt(sharedSecret).value % CURVE_N
        sharedSecretPoint2 == multiply(BASE, sharedSecretScalar)
        spendingPoint == fromHex(spendingPubKey)
        stealthPoint == add(spendingPoint.point, sharedSecretPoint2.point)
        stealthPubKey == toRawBytes(stealthPoint, TRUE)
        stealthAddress == publicKeyToAddress(stealthPubKey.bytes)
        viewTagHash == keccak_256(sharedSecret)
        viewTag == viewTagHash[1]
    IN  IF ~metaBytes.ok THEN StealthError("hex")
        ELSE IF Len(metaBytes.bytes) # META_ADDRESS_LENGTH
        THEN StealthError("Invalid meta-address length")
        ELSE IF ~(/\ ephemeralPublicKey.ok /\ sharedSecretPoint.ok
                  /\ sharedSecretPoint2.ok /\ spendingPoint.ok
                  /\ stealthPubKey.ok /\ stealthAddress.ok)
        THEN StealthError("curve")
        ELSE [error |-> "",
              stealthAddress |-> stealthAddress.address,
              ephemeralPubKey |-> Hex(ephemeralPublicKey.bytes),
              viewTag |-> viewTag]

UpperDigits == <<"A", "B", "C", "D", "E", "F">>

\* str.toLowerCase(), on the letters a hex string can hold.
toLowerCase(str) ==
    [i \in 1..Len(str) |->
        IF \E d \in 1..6 : UpperDigits[d] = str[i]
        THEN HexDigits[10 + (CHOOSE d \in 1..6 : UpperDigits[d] = str[i])]
        ELSE str[i]]

\* The verdicts of the try block of checkStealthAddress.
Threw == [threw |-> TRUE, value |-> FALSE]

Returned(value) == [threw |-> FALSE, value |-> value]

CheckBodySingleHashTag(ephemeralPubKey, viewingPrivateKey, spendingPublicKey, announcedAddress, viewTag) ==
    LET ephemeralBytes == HexArgToBytes(ephemeralPubKey)
        viewingPrivBytes == HexArgToBytes(viewingPrivateKey)
        spendingPubBytes == HexArgToBytes(spendingPublicKey)
        sharedSecretPoint ==
            getSharedSecret(viewingPrivBytes.bytes, ephemeralBytes.bytes)
        sharedSecret == keccak_256(sharedSecretPoint.bytes)
        sharedSecretScalar == BytesToBigInt(sharedSecret).value % CURVE_N
        sharedSecretPoint2 == multiply(BASE, sharedSecretScalar)
        spendingPoint == fromHex(spendingPubBytes.bytes)
        expectedStealthPoint ==
            add(spendingPoint.point, sharedSecretPoint2.point)
        expectedStealthPubKey == toRawBytes(expectedStealthPoint, TRUE)
        expectedAddress == publicKeyToAddress(expectedStealthPubKey.bytes)
    IN  IF ~(/\ ephemeralBytes.ok /\ viewingPrivBytes.ok
             /\ spendingPubBytes.ok /\ sharedSecretPoint.ok)
        THEN Threw
        ELSE IF viewTag # {} /\ viewTag # {sharedSecret[1]}
        THEN Returned(FALSE)
        ELSE IF ~(/\ sharedSecretPoint2.ok /\ spendingPoint.ok
                  /\ expectedStealthPubKey.ok /\ expectedAddress.ok)
        THEN Threw
        ELSE IF announcedAddress = UndefinedArg THEN Threw
        ELSE Returned(toLowerCase(expectedAddress.address)
                        = toLowerCase(announcedAddress))

\* The try block of checkStealthAddress.  viewTag is {} for undefined and
\* {t} for the tag t.
CheckBody(ephemeralPubKey, viewingPrivateKey, spendingPublicKey, announcedAddress, viewTag) ==
    LET ephemeralBytes == HexArgToBytes(ephemeralPubKey)
        viewingPrivBytes == HexArgToBytes(viewingPrivateKey)
        spendingPubBytes == HexArgToBytes(spendingPublicKey)
        sharedSecretPoint ==
            getSharedSecret(viewingPrivBytes.bytes, ephemeralBytes.bytes)
        sharedSecret == keccak_256(sharedSecretPoint.bytes)
        viewTagHash == keccak_256(sharedSecret)
        sharedSecretScalar == BytesToBigInt(sharedSecret).value % CURVE_N
        sharedSecretPoint2 == multiply(BASE, sharedSecretScalar)
        spendingPoint == fromHex(spendingPubBytes.bytes)
        expectedStealthPoint ==
            add(spendingPoint.point, sharedSecretPoint2.point)
        expectedStealthPubKey == toRawBytes(expectedStealthPoint, TRUE)
        expectedAddress == publicKeyToAddress(expectedStealthPubKey.bytes)
    IN  IF ~(/\ ephemeralBytes.ok /\ viewingPrivBytes.ok
             /\ spendingPubBytes.ok /\ sharedSecretPoint.ok)
        THEN Threw
        ELSE IF viewTag # {} /\ viewTag # {viewTagHash[1]}
        THEN Returned(FALSE)
        ELSE IF ~(/\ sharedSecretPoint2.ok /\ spendingPoint.ok
                  /\ expectedStealthPubKey.ok /\ expectedAddress.ok)
        THEN Threw
        ELSE IF announcedAddress = UndefinedArg THEN Threw
        ELSE Returned(toLowerCase(expectedAddress.address)
                        = toLowerCase(announcedAddress))

CheckStealthAddressNoCatch(ephemeralPubKey, viewingPrivateKey, spendingPublicKey, announcedAddress, viewTag) ==
    CheckBody(ephemeralPubKey, viewingPrivateKey, spendingPublicKey,
              announcedAddress, viewTag)

\* threw tells whether the call itself threw: with the catch, never.
checkStealthAddress(ephemeralPubKey, viewingPrivateKey, spendingPublicKey, announcedAddress, viewTag) ==
    LET r == CheckBody(ephemeralPubKey, viewingPrivateKey, spendingPublicKey,
                       announcedAddress, viewTag)
    IN  IF r.threw THEN Returned(FALSE) ELSE r

DeriveError == [error |-> "throw", key |-> <<>>]

DeriveStealthPrivateKeySubtracts(viewingPrivateKey, spendingPrivateKey, ephemeralPubKey) ==
    LET viewingPrivBytes == hexToBytes(slice2(viewingPrivateKey))
        spendingPrivBytes == hexToBytes(slice2(spendingPrivateKey))
        ephemeralBytes == hexToBytes(slice2(ephemeralPubKey))
        sharedSecretPoint ==
            getSharedSecret(viewingPrivBytes.bytes, ephemeralBytes.bytes)
        sharedSecret == keccak_256(sharedSecretPoint.bytes)
        spendingScalar == BytesToBigInt(spendingPrivBytes.bytes)
        sharedSecretScalar == BytesToBigInt(sharedSecret).value
        stealthPrivateScalar ==
            JsMod(spendingScalar.value - sharedSecretScalar, CURVE_N)
    IN  IF ~(/\ viewingPrivBytes.ok /\ spendingPrivBytes.ok
             /\ ephemeralBytes.ok /\ sharedSecretPoint.ok /\ spendingScalar.ok)
        THEN DeriveError
        ELSE [error |-> "",
              key |-> HexPrefix \o padStart(toString16(stealthPrivateScalar),
                                            2 * PRIVATE_KEY_LEN, "0")]

\* padStart(64, '0') is two digits per private-key byte.
deriveStealthPrivateKey(viewingPrivateKey, spendingPrivateKey, ephemeralPubKey) ==
    LET viewingPrivBytes == hexToBytes(slice2(viewingPrivateKey))
        spendingPrivBytes == hexToBytes(slice2(spendingPrivateKey))
        ephemeralBytes == hexToBytes(slice2(ephemeralPubKey))
        sharedSecretPoint ==
            getSharedSecret(viewingPrivBytes.bytes, ephemeralBytes.bytes)
        sharedSecret == keccak_256(sharedSecretPoint.bytes)
        spendingScalar == BytesToBigInt(spendingPrivBytes.bytes)
        sharedSecretScalar == BytesToBigInt(sharedSecret).value
        stealthPrivateScalar ==
            JsMod(spendingScalar.value + sharedSecretScalar, CURVE_N)
    IN  IF ~(/\ viewingPrivBytes.ok /\ spendingPrivBytes.ok
             /\ ephemeralBytes.ok /\ sharedSecretPoint.ok /\ spendingScalar.ok)
        THEN DeriveError
        ELSE [error |-> "",
              key |-> HexPrefix \o padStart(toString16(stealthPrivateScalar),
                                            2 * PRIVATE_KEY_LEN, "0")]

\* ------------------------------------------------- announcement scanning
\* ABI words are WORD_LEN bytes (32, scaled down); metadata is the view tag,
\* TOKEN_LEN bytes of token (20) and AMOUNT_LEN bytes of amount (32), in all
\* METADATA_LEN bytes (53).
WORD_LEN == 1

TOKEN_LEN == 1

AMOUNT_LEN == 1

METADATA_LEN == 3

\* The word of dataBytes at byte offset at, read as a number; a word past
\* the end is the empty slice, on which BigInt("0x") throws.
ReadWord(dataBytes, at) ==
    BytesToBigInt(sliceBytes(dataBytes, at, at + WORD_LEN))

\* The dynamic bytes field whose offset is the word at byte headAt.
ExtractBytes(data, headAt) ==
    LET dataBytes == HexArgToBytes(data)
        offset == ReadWord(dataBytes.bytes, headAt)
        length == ReadWord(dataBytes.bytes, offset.value)
        field == sliceBytes(dataBytes.bytes, offset.value + WORD_LEN,
                            offset.value + WORD_LEN + length.value)
    IN  IF dataBytes.ok /\ offset.ok /\ length.ok
        THEN [ok |-> TRUE, hex |-> Hex(field)]
        ELSE [ok |-> FALSE, hex |-> <<>>]

extractEphemeralPubKey(data) == ExtractBytes(data, 0)

extractMetadata(data) == ExtractBytes(data, WORD_LEN)

ZeroAddress == Hex([i \in 1..TOKEN_LEN |-> 0])

\* parseMetadata never throws: ok is TRUE on every path.
parseMetadata(metadata) ==
    LET metaBytes == hexToBytes(slice2(metadata)).bytes
    IN  IF Len(metaBytes) < METADATA_LEN
        THEN [ok |-> TRUE,
              viewTag |-> IF Len(metaBytes) > 0 THEN metaBytes[1] ELSE 0,
              token |-> ZeroAddress,
              amount |-> 0]
        ELSE [ok |-> TRUE,
              viewTag |-> metaBytes[1],
              token |-> Hex(sliceBytes(metaBytes, 1, 1 + TOKEN_LEN)),
              amount |-> BytesToBigInt(sliceBytes(metaBytes, 1 + TOKEN_LEN,
                                                  METADATA_LEN)).value]

\* A log of the Announcement event.  topics2 is topics[2]; kind and ours
\* tell how the entry was made and are not read by the SDK.
Log(kind, ours, topics2, data, blockNumber) ==
    [kind |-> kind, ours |-> ours, topics2 |-> topics2, data |-> data,
     blockNumber |-> blockNumber]

NoPayment ==
    [present |-> FALSE, stealthAddress |-> <<>>, ephemeralPubKey |-> <<>>,
     viewTag |-> 0, token |-> <<>>, amount |-> 0, blockNumber |-> 0,
     kind |-> ""]

\* null is NoPayment.  kind copies the log's, to tell payments apart.
processAnnouncement(log, viewingPrivateKey, spendingPublicKey) ==
    LET stealthAddress == log.topics2
        ephemeralPubKey == extractEphemeralPubKey(log.data)
        metadata == extractMetadata(log.data)
        parsed == parseMetadata(metadata.hex)
        isOurs == checkStealthAddress(ephemeralPubKey.hex, viewingPrivateKey,
                      spendingPublicKey, stealthAddress, {parsed.viewTag})
    IN  IF ~(ephemeralPubKey.ok /\ metadata.ok /\ parsed.ok) THEN NoPayment
        ELSE IF ~isOurs.value THEN NoPayment
        ELSE [present |-> TRUE,
              stealthAddress |-> stealthAddress,
              ephemeralPubKey |-> ephemeralPubKey.hex,
              viewTag |-> parsed.viewTag,
              token |-> parsed.token,
              amount |-> parsed.amount,
              blockNumber |-> log.blockNumber,
              kind |-> log.kind]

RECURSIVE ScanLoop(_, _, _, _)
\* The for loop of scanAnnouncements.
ScanLoop(logs, viewingPrivateKey, spendingPublicKey, payments) ==
    IF logs = <<>> THEN payments
    ELSE LET payment == processAnnouncement(Head(logs), viewingPrivateKey,
                                            spendingPublicKey)
         IN  ScanLoop(Tail(logs), viewingPrivateKey, spendingPublicKey,
                      IF payment.present THEN Append(payments, payment)
                      ELSE payments)

\* logs: what publicClient.getLogs resolved to.
scanAnnouncements(logs, viewingPrivateKey, spendingPublicKey) ==
    ScanLoop(logs, viewingPrivateKey, spendingPublicKey, <<>>)

\* ---------------------------------------------------- announcements made
\* abi.encode(bytes ephemeralPubKey, bytes metadata): two offsets, then each
\* field as its length and its bytes.
EncodeData(ephemeralPubKey, metadata) ==
    Hex(<<2 * WORD_LEN, 3 * WORD_LEN + Len(ephemeralPubKey),
          Len(ephemeralPubKey)>> \o ephemeralPubKey
        \o <<Len(metadata)>> \o metadata)

\* The scanning recipient's keys and another recipient's.
ScannerKeys == generateStealthKeys(<<1>>, <<2>>)

OtherKeys == generateStealthKeys(<<3>>, <<4>>)

\* What a sender publishes for the meta-address: kind names the variant.
Announce(kind, recipientKeys, blockNumber) ==
    LET g == generateStealthAddress(recipientKeys.stealthMetaAddress, <<1>>)
        ephemeral == hexToBytes(slice2(g.ephemeralPubKey)).bytes
        address == hexToBytes(slice2(g.stealthAddress)).bytes
        metadata == <<g.viewTag, 7, 5>>
        ours == recipientKeys = ScannerKeys
    IN  CASE kind = "topicWord" ->
                Log(kind, ours, Hex(<<0>> \o address),
                    EncodeData(ephemeral, metadata), blockNumber)
          [] kind = "tagOnly" ->
                Log(kind, ours, g.stealthAddress,
                    EncodeData(ephemeral, <<g.viewTag>>), blockNumber)
          [] kind = "noTopic" ->
                Log(kind, FALSE, UndefinedArg,
                    EncodeData(ephemeral, metadata), blockNumber)
          [] kind = "badKey" ->
                Log(kind, FALSE, g.stealthAddress,
                    EncodeData(<<2, 0>>, metadata), blockNumber)
          [] kind = "truncated" ->
                Log(kind, FALSE, g.stealthAddress, Hex(<<2 * WORD_LEN>>),
                    blockNumber)
          [] kind = "notHex" ->
                Log(kind, FALSE, g.stealthAddress, NotHex, blockNumber)
          [] OTHER ->
                Log(kind, ours, g.stealthAddress,
                    EncodeData(ephemeral, metadata), blockNumber)

\* An entry of the given kind: "foreign" is for the other recipient,
\* "plain" and the variants are for the scanner.
Sample(kind, blockNumber) ==
    Announce(kind, IF kind = "foreign" THEN OtherKeys ELSE ScannerKeys,
             blockNumber)

SampleKinds ==
    {"plain", "foreign", "topicWord", "tagOnly", "noTopic", "badKey",
     "truncated", "notHex"}

\* ------------------------------------------------------------------- state
TreeIds == {1, 2}

\* Leaves the callers insert: two plain commitments and the zero constant.
LeafValues == {<<1>>, <<2>>, ZERO_VALUE}

Ret(op, t, arg, error, index, root, proof) ==
    [op |-> op, tree |-> t, arg |-> arg, error |-> error,
     index |-> index, root |-> root, proof |-> proof]

NoRet == Ret("", 0, 0, "", 0 - 1, Undefined, NoProof)

Callers == 1..NumCallers

NoCheck == [called |-> FALSE, leaf |-> Undefined, proof |-> NoProof,
            sdk |-> FALSE, circuit |-> FALSE]

InitTrees(heights) ==
    /\ \E h \in heights : trees = [t \in TreeIds |-> NewMerkleTree(h)]
    /\ ret = NoRet
    /\ hist = [t \in TreeIds |-> <<>>]

InitPoseidon ==
    /\ poseidon = 0
    /\ F = 0
    /\ builds = 0
    /\ pc = [c \in Callers |-> "idle"]
    /\ callee = [c \in Callers |-> ""]
    /\ inst = [c \in Callers |-> 0]
    /\ used = [c \in Callers |-> 0]

InitNotes ==
    /\ created = NoNote
    /\ rebuilt = NoNote

InitSerial ==
    /\ serialized = [note |-> NoNote, str |-> <<>>]
    /\ deserialized = [called |-> FALSE, str |-> <<>>, error |-> "",
                       note |-> NoNote]

Recipients == {1, 2}

NoStealth ==
    [called |-> FALSE, recipient |-> 0, ephemeralPrivateKey |-> <<>>,
     error |-> "", stealthAddress |-> <<>>, ephemeralPubKey |-> <<>>,
     viewTag |-> 0]

\* with: the recipient whose keys the call was given, 0 for other arguments.
NoChecked ==
    [called |-> FALSE, with |-> 0, ephemeralPubKey |-> <<>>,
     viewingPrivateKey |-> <<>>, spendingPublicKey |-> <<>>,
     announcedAddress |-> <<>>, viewTag |-> {}, threw |-> FALSE,
     value |-> FALSE]

NoDerived ==
    [called |-> FALSE, with |-> 0, error |-> "", key |-> <<>>,
     valid |-> FALSE, address |-> <<>>]

InitStealth(seeds) ==
    /\ keccakSeed \in seeds
    /\ keys = [r \in Recipients |-> NoKeys]
    /\ stealth = NoStealth
    /\ checked = NoChecked
    /\ derived = NoDerived

NoScan == [called |-> FALSE, payments |-> <<>>]

InitScan ==
    /\ gotLogs = <<>>
    /\ scanned = NoScan

\* No watcher started.
InitNoWatch ==
    /\ mempool = <<>>
    /\ chain = <<>>
    /\ initialFromBlock = 0
    /\ lastBlock = 0
    /\ isRunning = FALSE
    /\ pollPc = "none"
    /\ scanFromBlock = 0
    /\ fetched = <<>>
    /\ resolved = <<>>
    /\ delivered = <<>>

\* No fee witness checked.
NoFee == [called |-> FALSE, relayer |-> 0, relayerFee |-> 0, accepted |-> FALSE]

\* formatProofForContract not called.
NoFormatted ==
    [called |-> FALSE,
     proof |-> [pi_a |-> <<>>, pi_b |-> <<>>, pi_c |-> <<>>],
     publicSignals |-> <<>>,
     result |-> [pA |-> <<>>, pB |-> <<>>, pC |-> <<>>, pubSignals |-> <<>>]]

\* generateProof not called.
NoProofInput ==
    [called |-> FALSE,
     note |-> [secret |-> 0, nullifier |-> 0, amount |-> 0,
               nullifierHash |-> 0],
     merkleProof |-> [root |-> 0, pathElements |-> <<>>,
                      pathIndices |-> <<>>],
     swapParams |-> [recipient |-> <<>>, relayer |-> <<>>,
                     relayerFee |-> {}, expectedAmountOut |-> 0],
     input |-> <<>>]

\* ClaimResult; txHash, stealthAddress, amount and error are "" when absent.
ClaimResult(success, txHash, stealthAddress, amount, error) ==
    [success |-> success, txHash |-> txHash,
     stealthAddress |-> stealthAddress, amount |-> amount, error |-> error]

NoClaim ==
    [pc |-> "none", amount |-> {}, ephemeralPubKey |-> <<>>,
     toAddress |-> <<>>, stealthAddress |-> <<>>,
     balance |-> {}, transferAmount |-> 0, calldata |-> <<>>,
     estimateReply |-> "", estimated |-> <<>>, gasLimit |-> 0,
     requests |-> <<>>, sent |-> <<>>,
     result |-> ClaimResult(FALSE, "", "", "", "")]

NoSwap ==
    [pc |-> "none", leafIndex |-> {}, preloaded |-> {}, leaves |-> {},
     infoRequests |-> 0, depositFetches |-> 0, proverCalls |-> 0,
     submissions |-> 0, error |-> "", response |-> ""]

NoInsertCall ==
    [pc |-> "idle", leaf |-> <<>>, index |-> {}, i |-> 0, level |-> 0,
     currentIndex |-> 0, inputs |-> <<>>]

NoRace ==
    [tree |-> [height |-> 0, leaves |-> <<>>, zeros |-> <<>>,
               layers |-> <<>>],
     calls |-> <<>>, overlapped |-> FALSE]

NoDeposits ==
    [blocks |-> <<>>, fromBlock |-> {}, called |-> FALSE, error |-> "",
     returned |-> <<>>, events |-> <<>>, commitments |-> <<>>]

\* The calls of the later sections have not been made, the one named apart.
InitLateBut(skip) ==
    /\ IF skip = "fee" THEN TRUE ELSE fee = NoFee
    /\ IF skip = "formatted" THEN TRUE ELSE formatted = NoFormatted
    /\ IF skip = "proofInput" THEN TRUE ELSE proofInput = NoProofInput
    /\ IF skip = "claim" THEN TRUE ELSE claim = NoClaim
    /\ IF skip = "swap" THEN TRUE ELSE swap = NoSwap
    /\ IF skip = "race" THEN TRUE ELSE race = NoRace
    /\ IF skip = "deposits" THEN TRUE ELSE deposits = NoDeposits

InitLate == InitLateBut("")

InitRest ==
    /\ InitSerial
    /\ InitStealth({<<13, 5>>})
    /\ InitScan
    /\ InitNoWatch
    /\ InitLate

\* One tree of height 1 and nothing called, the call named apart.
InitIdle(skip) ==
    /\ InitTrees({1})
    /\ check = NoCheck
    /\ InitPoseidon
    /\ InitNotes
    /\ InitSerial
    /\ InitStealth({<<13, 5>>})
    /\ InitScan
    /\ InitNoWatch
    /\ InitLateBut(skip)

\* Trees are constructed with any height from 1 to MaxHeight.
Init ==
    /\ InitTrees(1..MaxHeight)
    /\ check = NoCheck
    /\ InitPoseidon
    /\ InitNotes
    /\ InitRest

\* The same with the tree height fixed, for the parts that use no tree.
InitOne ==
    /\ InitTrees({1})
    /\ check = NoCheck
    /\ InitPoseidon
    /\ InitNotes
    /\ InitRest

\* ----------------------------------------------------------------- actions
CallInitialize(t) ==
    /\ trees' = [trees EXCEPT ![t] = initialize(@)]
    /\ ret' = Ret("initialize", t, 0, "", 0 - 1, Undefined, NoProof)
    /\ UNCHANGED <<hist, verifyVars, poseidonVars, noteVars, restVars>>

\* initialize() as the documentation asks for it: before any insertion.
CallInitializeFirst(t) ==
    /\ leafCount(trees[t]) = 0
    /\ CallInitialize(t)

CallInsert(t, leaf, max) ==
    /\ leafCount(trees[t]) < max
    /\ LET r == insert(trees[t], leaf)
       IN  /\ trees' = [trees EXCEPT ![t] = r.tree]
           /\ ret' = Ret("insert", t, 0, "", r.index, Undefined, NoProof)
           /\ hist' = [hist EXCEPT ![t] = Append(@, getRoot(r.tree))]
    /\ UNCHANGED <<verifyVars, poseidonVars, noteVars, restVars>>

CallGetRoot(t) ==
    /\ ret' = Ret("getRoot", t, 0, "", 0 - 1, getRoot(trees[t]), NoProof)
    /\ UNCHANGED <<trees, hist, verifyVars, poseidonVars, noteVars, restVars>>

CallGetProof(t, leafIndex) ==
    /\ LET r == getProof(trees[t], leafIndex)
       IN  ret' = Ret("getProof", t, leafIndex, r.error, 0 - 1, Undefined, r.proof)
    /\ UNCHANGED <<trees, hist, verifyVars, poseidonVars, noteVars, restVars>>

\* One tree, used as documented: initialize, then serialized inserts and reads.
Next ==
    \/ CallInitializeFirst(1)
    \/ \E leaf \in LeafValues : CallInsert(1, leaf, MaxLeaves)
    \/ CallGetRoot(1)
    \/ \E i \in (0 - 1)..MaxLeaves : CallGetProof(1, i)

Spec == Init /\ [][Next]_vars

\* One tree under every order of its public operations.
NextApi ==
    \/ CallInitialize(1)
    \/ \E leaf \in {<<1>>, ZERO_VALUE} : CallInsert(1, leaf, MaxLeaves)
    \/ CallGetRoot(1)
    \/ \E i \in (0 - 1)..MaxLeaves : CallGetProof(1, i)

SpecApi == Init /\ [][NextApi]_vars

\* Two independent trees of the same height, each initialized explicitly or
\* lazily by its first insert, then filled by serialized inserts.
NextTwo ==
    \E t \in TreeIds :
        \/ CallInitializeFirst(t)
        \/ \E leaf \in {<<1>>, ZERO_VALUE} : CallInsert(t, leaf, MaxLeavesTwo)
        \/ CallGetRoot(t)

SpecTwo == Init /\ [][NextTwo]_vars

\* ------------------------------------ verifyMerkleProof next to the circuit
PathValues == {<<1>>, <<2>>}

\* Roots worth trying: every fold of a leaf along a path.
RootCandidates(leaf, pathElements) ==
    {VerifyLoop([root |-> Undefined, pathElements |-> pathElements,
                 pathIndices |-> pi], 0, leaf) :
        pi \in [1..Len(pathElements) -> {0, 1}]}

\* The calls tried: every leaf, path and index vector, with each root candidate.
VerifyInputs ==
    {[called |-> FALSE, leaf |-> leaf,
      proof |-> [root |-> root, pathElements |-> pathElements,
                 pathIndices |-> pathIndices],
      sdk |-> FALSE, circuit |-> FALSE] :
        leaf \in PathValues,
        pathElements \in [1..CircuitLevels -> PathValues],
        pathIndices \in [1..CircuitLevels -> {0, 1, 2}],
        root \in {<<1>>} \cup UNION {RootCandidates(l, pe) :
                    l \in PathValues, pe \in [1..CircuitLevels -> PathValues]}}

InitVerify ==
    /\ InitTrees({1})
    /\ check \in VerifyInputs
    /\ InitPoseidon
    /\ InitNotes
    /\ InitRest

\* Run verifyMerkleProof and the circuit's constraints on the drawn signals.
CallVerify ==
    /\ ~check.called
    /\ check' = [check EXCEPT
                    !.called = TRUE,
                    !.sdk = verifyMerkleProof(check.leaf, check.proof),
                    !.circuit = MerkleTreeChecker(CircuitLevels, check.leaf,
                                                  check.proof.root,
                                                  check.proof.pathElements,
                                                  check.proof.pathIndices)]
    /\ UNCHANGED <<treeVars, poseidonVars, noteVars, restVars>>

NextVerify == CallVerify

SpecVerify == InitVerify /\ [][NextVerify]_vars

\* ------------------------------------------------- Poseidon initialization
\* The synchronous head of initPoseidon(): test the cache and, if it is empty,
\* invoke buildPoseidon() and suspend on its promise.
EnterInitPoseidon(c, fn) ==
    /\ pc[c] = "idle"
    /\ callee' = [callee EXCEPT ![c] = fn]
    /\ IF poseidon = 0
       THEN /\ builds' = builds + 1
            /\ inst' = [inst EXCEPT ![c] = builds + 1]
            /\ pc' = [pc EXCEPT ![c] = "building"]
       ELSE /\ pc' = [pc EXCEPT ![c] = "returning"]
            /\ UNCHANGED <<builds, inst>>
    /\ UNCHANGED <<poseidon, F, used, treeVars, verifyVars, noteVars, restVars>>

CallInitPoseidon(c) == EnterInitPoseidon(c, "initPoseidon")

CallPoseidonHash(c) == EnterInitPoseidon(c, "poseidonHash")

\* buildPoseidon() resolved: poseidon = <the built hasher>; F = poseidon.F.
FinishBuild(c) ==
    /\ pc[c] = "building"
    /\ poseidon' = inst[c]
    /\ F' = inst[c]
    /\ pc' = [pc EXCEPT ![c] = "returning"]
    /\ UNCHANGED <<builds, callee, inst, used, treeVars, verifyVars, noteVars, restVars>>

\* The caller's await initPoseidon() resumes; poseidonHash then hashes on the
\* hasher the module variable holds at that moment.
Resume(c) ==
    /\ pc[c] = "returning"
    /\ pc' = [pc EXCEPT ![c] = "idle"]
    /\ used' = [used EXCEPT ![c] = IF callee[c] = "poseidonHash" THEN poseidon ELSE @]
    /\ UNCHANGED <<poseidon, F, builds, callee, inst, treeVars, verifyVars, noteVars, restVars>>

NextPoseidon ==
    \E c \in Callers :
        \/ CallInitPoseidon(c)
        \/ CallPoseidonHash(c)
        \/ FinishBuild(c)
        \/ Resume(c)

SpecPoseidon == InitOne /\ [][NextPoseidon]_vars

\* ------------------------------------------------------------ deposit notes
CallCreateDepositNote(amount, rnd1, rnd2) ==
    /\ created' = createDepositNote(amount, rnd1, rnd2)
    /\ UNCHANGED <<rebuilt, treeVars, verifyVars, poseidonVars, restVars>>

CallReconstructDepositNote(secret, nullifier, amount, leafIndex) ==
    /\ rebuilt' = reconstructDepositNote(secret, nullifier, amount, leafIndex)
    /\ UNCHANGED <<created, treeVars, verifyVars, poseidonVars, restVars>>

NextNote ==
    \/ \E amount \in 0..MaxAmount : \E rnd1, rnd2 \in 0..MaxRandom :
          CallCreateDepositNote(amount, rnd1, rnd2)
    \/ \E secret, nullifier \in 0..(FIELD_SIZE - 1) : \E amount \in 0..MaxAmount :
       \E leafIndex \in {{}, {1}} :
          CallReconstructDepositNote(secret, nullifier, amount, leafIndex)

SpecNote == InitOne /\ [][NextNote]_vars

\* ---------------------------------------------------- serialization calls
\* Strings handed to deserializeNote that no serializeNote call produced:
\* a tag, a version and up to four further fields.
StrayTags == {NoteTag, <<"g", "r", "i", "m">>}

StrayVersions == {NoteVersion, <<"v", "2">>}

StrayFields == {<<"0", "1">>, <<"f">>, <<>>, <<"g">>}

MaxStrayFields == 4

RECURSIVE FieldLists(_)
FieldLists(n) ==
    IF n = 0 THEN {<<>>}
    ELSE {Append(l, f) : l \in FieldLists(n - 1), f \in StrayFields}

StrayStrings ==
    {join(<<tag, version>> \o body) :
        tag \in StrayTags, version \in StrayVersions,
        body \in UNION {FieldLists(n) : n \in 0..MaxStrayFields}}

\* serializeNote on a note the SDK built (with or without a leafIndex).
CallSerializeNote(secret, nullifier, amount, leafIndex) ==
    /\ ~serialized.note.present
    /\ ~deserialized.called
    /\ LET note == reconstructDepositNote(secret, nullifier, amount, leafIndex)
       IN  serialized' = [note |-> note, str |-> serializeNote(note)]
    /\ UNCHANGED <<deserialized, coreVars, lateVars, stealthVars, scanWatchVars>>

CallDeserializeNote(noteString) ==
    /\ ~deserialized.called
    /\ LET r == deserializeNote(noteString)
       IN  deserialized' = [called |-> TRUE, str |-> noteString,
                            error |-> r.error, note |-> r.note]
    /\ UNCHANGED <<serialized, coreVars, lateVars, stealthVars, scanWatchVars>>

\* deserializeNote on the string the earlier serializeNote returned.
CallDeserializeSerialized ==
    /\ serialized.note.present
    /\ CallDeserializeNote(serialized.str)

NextSerial ==
    \/ \E secret \in 0..(FIELD_SIZE - 1), nullifier \in 0..(FIELD_SIZE - 1),
          amount \in 0..MaxNoteAmount, leafIndex \in {{}, {1}} :
            CallSerializeNote(secret, nullifier, amount, leafIndex)
    \/ CallDeserializeSerialized
    \/ \E noteString \in StrayStrings :
          ~serialized.note.present /\ CallDeserializeNote(noteString)

SpecSerial == InitOne /\ [][NextSerial]_vars

\* ----------------------------------------------------------- stealth calls
\* Every key randomPrivateKey() can return, as bytes.
PrivateKeys == {<<d>> : d \in 1..(CURVE_N - 1)}

CallGenerateStealthKeys(r, rndSpending, rndViewing) ==
    /\ ~keys[r].present
    /\ ~stealth.called
    /\ keys' = [keys EXCEPT ![r] = generateStealthKeys(rndSpending, rndViewing)]
    /\ UNCHANGED <<keccakSeed, stealth, checked, derived,
                   coreVars, lateVars, serialVars, scanWatchVars>>

CallGenerateStealthAddress(r, ephemeralPrivateKey) ==
    /\ keys[r].present
    /\ ~stealth.called
    /\ LET g == generateStealthAddress(keys[r].stealthMetaAddress,
                                       ephemeralPrivateKey)
       IN  stealth' = [called |-> TRUE, recipient |-> r,
                       ephemeralPrivateKey |-> ephemeralPrivateKey,
                       error |-> g.error,
                       stealthAddress |-> g.stealthAddress,
                       ephemeralPubKey |-> g.ephemeralPubKey,
                       viewTag |-> g.viewTag]
    /\ UNCHANGED <<keccakSeed, keys, checked, derived, coreVars, lateVars, serialVars, scanWatchVars>>

\* checkStealthAddress on the generated address with recipient r's keys.
CallCheckStealthAddress(r, viewTag) ==
    /\ stealth.called
    /\ stealth.error = ""
    /\ keys[r].present
    /\ ~checked.called
    /\ LET c == checkStealthAddress(stealth.ephemeralPubKey,
                    keys[r].viewingPrivateKey, keys[r].spendingPublicKey,
                    stealth.stealthAddress, viewTag)
       IN  checked' = [called |-> TRUE, with |-> r,
                       ephemeralPubKey |-> stealth.ephemeralPubKey,
                       viewingPrivateKey |-> keys[r].viewingPrivateKey,
                       spendingPublicKey |-> keys[r].spendingPublicKey,
                       announcedAddress |-> stealth.stealthAddress,
                       viewTag |-> viewTag, threw |-> c.threw,
                       value |-> c.value]
    /\ UNCHANGED <<keccakSeed, keys, stealth, derived, coreVars, lateVars, serialVars, scanWatchVars>>

\* deriveStealthPrivateKey with recipient r's keys, then the claim builder's
\* privateKeyToAddress on the key it returned.
CallDeriveStealthPrivateKey(r) ==
    /\ stealth.called
    /\ stealth.error = ""
    /\ keys[r].present
    /\ ~derived.called
    /\ LET d == deriveStealthPrivateKey(keys[r].viewingPrivateKey,
                    keys[r].spendingPrivateKey, stealth.ephemeralPubKey)
           a == privateKeyToAddress(d.key)
       IN  derived' = [called |-> TRUE, with |-> r, error |-> d.error,
                       key |-> d.key,
                       valid |-> d.error = "" /\ a.ok,
                       address |-> IF d.error = "" THEN a.address ELSE <<>>]
    /\ UNCHANGED <<keccakSeed, keys, stealth, checked, coreVars, lateVars, serialVars, scanWatchVars>>

NextStealth ==
    \/ \E r \in Recipients, rndSpending \in PrivateKeys,
          rndViewing \in PrivateKeys :
            /\ r = 2 => keys[1].present
            /\ CallGenerateStealthKeys(r, rndSpending, rndViewing)
    \/ \E ephemeralPrivateKey \in PrivateKeys :
            CallGenerateStealthAddress(1, ephemeralPrivateKey)
    \/ \E r \in Recipients,
          viewTag \in {{}, {stealth.viewTag},
                       {(stealth.viewTag + 1) % DigestByte}} :
            CallCheckStealthAddress(r, viewTag)
    \/ \E r \in Recipients : CallDeriveStealthPrivateKey(r)

InitStealthOnly ==
    /\ InitTrees({1})
    /\ check = NoCheck
    /\ InitPoseidon
    /\ InitNotes
    /\ InitSerial
    /\ InitStealth(KeccakFamily)
    /\ InitScan
    /\ InitNoWatch
    /\ InitLate

SpecStealth == InitStealthOnly /\ [][NextStealth]_vars

\* ------------------------------------------- checkStealthAddress, any input
\* Arguments a caller or an announcement can hand to checkStealthAddress:
\* well-formed ones, points off the curve, keys out of range, wrong lengths,
\* strings that are no hex, the empty string and missing arguments.
EphemeralInputs ==
    {Hex(<<2, 1>>), Hex(<<3, 2>>), Hex(<<2, 0>>), Hex(<<2>>),
     NotHex, OddHex, <<>>, UndefinedArg}

ViewingInputs ==
    {Hex(<<1>>), Hex(<<3>>), Hex(<<0>>), Hex(<<CURVE_N>>), Hex(<<1, 1>>),
     NotHex, UndefinedArg}

SpendingInputs ==
    {Hex(<<2, 1>>), Hex(<<3, 1>>), Hex(<<4, 1>>), Hex(<<>>), UndefinedArg}

AddressInputs ==
    {publicKeyToAddress(toRawBytes(k, TRUE).bytes).address :
        k \in 1..(CURVE_N - 1)} \cup {Hex(<<0>>), UndefinedArg}

ViewTagInputs == {{}, {0}, {1}, {DigestByte - 1}}

CheckInputs ==
    {[NoChecked EXCEPT !.ephemeralPubKey = e, !.viewingPrivateKey = v,
                       !.spendingPublicKey = p, !.announcedAddress = a,
                       !.viewTag = t] :
        e \in EphemeralInputs, v \in ViewingInputs, p \in SpendingInputs,
        a \in AddressInputs, t \in ViewTagInputs}

InitCheck ==
    /\ InitTrees({1})
    /\ check = NoCheck
    /\ InitPoseidon
    /\ InitNotes
    /\ InitSerial
    /\ keccakSeed = <<13, 5>>
    /\ keys = [r \in Recipients |-> NoKeys]
    /\ stealth = NoStealth
    /\ checked \in CheckInputs
    /\ derived = NoDerived
    /\ InitScan
    /\ InitNoWatch
    /\ InitLate

\* checkStealthAddress on the drawn arguments.
CallCheckAnyInput ==
    /\ ~checked.called
    /\ LET c == checkStealthAddress(checked.ephemeralPubKey,
                    checked.viewingPrivateKey, checked.spendingPublicKey,
                    checked.announcedAddress, checked.viewTag)
       IN  checked' = [checked EXCEPT !.called = TRUE, !.threw = c.threw,
                                      !.value = c.value]
    /\ UNCHANGED <<keccakSeed, keys, stealth, derived, coreVars, lateVars, serialVars, scanWatchVars>>

NextCheck == CallCheckAnyInput

SpecCheck == InitCheck /\ [][NextCheck]_vars

\* ------------------------------------------------------ scanAnnouncements
\* Most log entries one getLogs answer holds.
MaxLogs == 2

InitScanOnly ==
    /\ InitTrees({1})
    /\ check = NoCheck
    /\ InitPoseidon
    /\ InitNotes
    /\ InitSerial
    /\ InitStealth({<<13, 5>>})
    /\ InitScan
    /\ InitNoWatch
    /\ InitLate

\* The announcer emits an entry of the given kind in the next block; the
\* getLogs answer of the scan holds the entries in block order.
EmitAnnouncement(kind) ==
    /\ ~scanned.called
    /\ Len(gotLogs) < MaxLogs
    /\ gotLogs' = Append(gotLogs, Sample(kind, Len(gotLogs) + 1))
    /\ UNCHANGED <<scanned, watchVars, coreVars, lateVars, serialVars, stealthVars>>

\* scanAnnouncements with the scanner's keys on the getLogs answer.
CallScanAnnouncements ==
    /\ ~scanned.called
    /\ scanned' = [called |-> TRUE,
                   payments |-> scanAnnouncements(gotLogs,
                                    ScannerKeys.viewingPrivateKey,
                                    ScannerKeys.spendingPublicKey)]
    /\ UNCHANGED <<gotLogs, watchVars, coreVars, lateVars, serialVars, stealthVars>>

NextScan ==
    \/ \E kind \in SampleKinds : EmitAnnouncement(kind)
    \/ CallScanAnnouncements

SpecScan == InitScanOnly /\ [][NextScan]_vars

\* ----------------------------------------------------- watchAnnouncements
\* Blocks mined while the watcher runs.
MaxBlock == 2

\* The announcements senders submit while the watcher runs.
WatchedKinds == {"plain", "foreign"}

\* The state watchAnnouncements returns in: poll() has entered the loop and
\* its first scan is in flight.  Blocks are numbered from 1; the chain is
\* the sequence of their entry lists.
InitWatch ==
    /\ mempool = [kind \in WatchedKinds |-> Sample(kind, 0)]
    /\ chain = <<>>
    /\ initialFromBlock \in {0, 1}
    /\ lastBlock = initialFromBlock
    /\ isRunning = TRUE
    /\ pollPc = "scanning"
    /\ scanFromBlock = initialFromBlock
    /\ fetched = <<>>
    /\ resolved = <<>>
    /\ delivered = <<>>

InitWatchOnly ==
    /\ InitTrees({1})
    /\ check = NoCheck
    /\ InitPoseidon
    /\ InitNotes
    /\ InitSerial
    /\ InitStealth({<<13, 5>>})
    /\ InitScan
    /\ InitWatch
    /\ InitLate

\* The chain grows by a block: an empty one, or one holding a submitted
\* announcement, whose log carries the number of the block.
MineBlock ==
    /\ Len(chain) < MaxBlock
    /\ \E entries \in {<<>>} \cup
            {<<[mempool[kind] EXCEPT !.blockNumber = Len(chain) + 1]>> :
                kind \in DOMAIN mempool} :
          chain' = Append(chain, entries)
    /\ UNCHANGED <<mempool, initialFromBlock, lastBlock, isRunning, pollPc,
                   scanFromBlock, fetched, resolved, delivered,
                   scanVars, coreVars, lateVars, serialVars, stealthVars>>

RECURSIVE LogsFrom(_, _)
\* getLogs({fromBlock, toBlock: 'latest'}) on the chain as it is now.
LogsFrom(blocks, fromBlock) ==
    IF blocks = <<>> THEN <<>>
    ELSE LogsFrom(SubSeq(blocks, 1, Len(blocks) - 1), fromBlock)
            \o (IF Len(blocks) >= fromBlock THEN blocks[Len(blocks)]
                ELSE <<>>)

\* The node answers the getLogs of the scan in flight.
GetLogs ==
    /\ pollPc = "scanning"
    /\ fetched' = LogsFrom(chain, scanFromBlock)
    /\ pollPc' = "fetched"
    /\ UNCHANGED <<mempool, chain, initialFromBlock, lastBlock, isRunning,
                   scanFromBlock, resolved, delivered,
                   scanVars, coreVars, lateVars, serialVars, stealthVars>>

\* The catch moves the watermark on.
ScanFailsSkips ==
    /\ pollPc = "scanning"
    /\ pollPc' = "sleeping"
    /\ lastBlock' = lastBlock + 1
    /\ UNCHANGED <<mempool, chain, initialFromBlock, isRunning,
                   scanFromBlock, fetched, resolved, delivered,
                   scanVars, coreVars, lateVars, serialVars, stealthVars>>

\* getChainId or getLogs rejects: the catch logs the error, lastBlock stays.
ScanFails ==
    /\ pollPc = "scanning"
    /\ pollPc' = "sleeping"
    /\ UNCHANGED <<mempool, chain, initialFromBlock, lastBlock, isRunning,
                   scanFromBlock, fetched, resolved, delivered,
                   scanVars, coreVars, lateVars, serialVars, stealthVars>>

\* scanAnnouncements goes through the logs it got and resolves.
ScanResolves ==
    /\ pollPc = "fetched"
    /\ resolved' = scanAnnouncements(fetched, ScannerKeys.viewingPrivateKey,
                                     ScannerKeys.spendingPublicKey)
    /\ fetched' = <<>>
    /\ pollPc' = "awaited"
    /\ UNCHANGED <<mempool, chain, initialFromBlock, lastBlock, isRunning,
                   scanFromBlock, delivered,
                   scanVars, coreVars, lateVars, serialVars, stealthVars>>

RECURSIVE PaymentLoop(_, _)
\* lastBlock after the for loop over the payments.
PaymentLoop(found, last) ==
    IF found = <<>> THEN last
    ELSE PaymentLoop(Tail(found),
                     IF Head(found).blockNumber > last
                     THEN Head(found).blockNumber ELSE last)

\* A payment as onPayment received it, with whether stop had been invoked.
Delivery(payment, running) ==
    [blockNumber |-> payment.blockNumber, kind |-> payment.kind,
     stealthAddress |-> payment.stealthAddress, afterStop |-> ~running]

\* The watermark is taken from the payments alone.
DeliverPaymentsForgets ==
    /\ pollPc = "awaited"
    /\ delivered' = delivered \o
            [i \in 1..Len(resolved) |-> Delivery(resolved[i], isRunning)]
    /\ lastBlock' = PaymentLoop(resolved, 0) + 1
    /\ resolved' = <<>>
    /\ pollPc' = "sleeping"
    /\ UNCHANGED <<mempool, chain, initialFromBlock, isRunning,
                   scanFromBlock, fetched,
                   scanVars, coreVars, lateVars, serialVars, stealthVars>>

\* poll() continues after the await: every payment goes to onPayment, and
\* the watermark moves past the processed blocks.
DeliverPayments ==
    /\ pollPc = "awaited"
    /\ delivered' = delivered \o
            [i \in 1..Len(resolved) |-> Delivery(resolved[i], isRunning)]
    /\ lastBlock' = PaymentLoop(resolved, lastBlock) + 1
    /\ resolved' = <<>>
    /\ pollPc' = "sleeping"
    /\ UNCHANGED <<mempool, chain, initialFromBlock, isRunning,
                   scanFromBlock, fetched,
                   scanVars, coreVars, lateVars, serialVars, stealthVars>>

\* The timer of sleep(pollInterval) fires.
SleepEnds ==
    /\ pollPc = "sleeping"
    /\ pollPc' = "loop"
    /\ UNCHANGED <<mempool, chain, initialFromBlock, lastBlock, isRunning,
                   scanFromBlock, fetched, resolved, delivered,
                   scanVars, coreVars, lateVars, serialVars, stealthVars>>

PollTestIgnoresStop ==
    /\ pollPc = "loop"
    /\ lastBlock <= MaxBlock + 1
    /\ pollPc' = "scanning"
    /\ scanFromBlock' = lastBlock
    /\ UNCHANGED <<mempool, chain, initialFromBlock, lastBlock, isRunning,
                   fetched, resolved, delivered,
                   scanVars, coreVars, lateVars, serialVars, stealthVars>>

\* while (isRunning): the next scan starts from lastBlock, or the loop ends.
PollTest ==
    /\ pollPc = "loop"
    /\ IF isRunning
       THEN /\ lastBlock <= MaxBlock + 1
            /\ pollPc' = "scanning"
            /\ scanFromBlock' = lastBlock
       ELSE /\ pollPc' = "done"
            /\ UNCHANGED scanFromBlock
    /\ UNCHANGED <<mempool, chain, initialFromBlock, lastBlock, isRunning,
                   fetched, resolved, delivered,
                   scanVars, coreVars, lateVars, serialVars, stealthVars>>

\* The caller invokes the stop handle.
Stop ==
    /\ isRunning
    /\ isRunning' = FALSE
    /\ UNCHANGED <<mempool, chain, initialFromBlock, lastBlock, pollPc,
                   scanFromBlock, fetched, resolved, delivered,
                   scanVars, coreVars, lateVars, serialVars, stealthVars>>

\* The positions of poll() from which the event loop continues it.
PollPositions == {"scanning", "fetched", "awaited", "sleeping", "loop"}

\* poll() moves on: the event loop runs its continuation whenever the
\* promise it awaits has settled, until the loop has ended.
PollMoves ==
    /\ pollPc \in PollPositions
    /\ (pollPc = "loop" /\ isRunning) => lastBlock <= MaxBlock + 1
    /\ pollPc' \in (PollPositions \cup {"done"}) \ {pollPc}

NextWatch ==
    \/ MineBlock
    \/ GetLogs
    \/ ScanFails
    \/ ScanResolves
    \/ DeliverPayments
    \/ SleepEnds
    \/ PollTest
    \/ Stop

SpecWatch == InitWatchOnly /\ [][NextWatch]_vars /\ WF_pollPc(PollMoves)

\* ------------------------------------------------------- Merkle tree claims
T1 == trees[1]

RECURSIVE Pow2(_)
Pow2(n) == IF n = 0 THEN 1 ELSE 2 * Pow2(n - 1)

\* The tree holds no more leaves than a tree of its height has positions.
WithinCapacity(tr) == leafCount(tr) <= Pow2(tr.height)

\* getProof(i) returns a proof and the proof verifies for the leaf inserted at i.
Committed(tr, i) ==
    LET r == getProof(tr, i)
    IN  r.error = "" /\ verifyMerkleProof(SeqAt(tr.leaves, i), r.proof)

\* C1: after any sequence of inserts, for every index i < leafCount,
\* verifyMerkleProof(leaf_i, getProof(i)) is true.
C1_EveryInsertedLeafVerifies ==
    \A i \in 0..(leafCount(T1) - 1) : Committed(T1, i)

\* What the code does keep (C1 within capacity): every leaf at an index below
\* 2^height verifies.
C1_LeavesWithinCapacityVerify ==
    \A i \in 0..(leafCount(T1) - 1) : i < Pow2(T1.height) => Committed(T1, i)

\* Node idx of level `level` of the perfect tree over `leaves` padded with zero0.
RECURSIVE PerfectNode(_, _, _, _)
PerfectNode(leaves, zero0, level, idx) ==
    IF level = 0
    THEN (IF idx < Len(leaves) THEN leaves[idx + 1] ELSE zero0)
    ELSE poseidonHash(<<PerfectNode(leaves, zero0, level - 1, 2 * idx),
                        PerfectNode(leaves, zero0, level - 1, 2 * idx + 1)>>)

\* C2: in every reachable state getRoot() is the root of the perfect binary
\* tree of the configured height whose leaves are the inserted leaves in index
\* order followed by zeros[0] in every unfilled position.
C2_RootIsPerfectTreeRoot ==
    /\ WithinCapacity(T1)
    /\ getRoot(T1) = PerfectNode(T1.leaves, ZERO_VALUE, T1.height, 0)

\* What the code does keep (C2 once initialized): the root is that of the
\* perfect tree over the first 2^height leaves.
C2_InitializedRootIsPerfectTreeRoot ==
    Len(T1.zeros) > 0 =>
        getRoot(T1) = PerfectNode(T1.leaves, ZERO_VALUE, T1.height, 0)

\* C4: for every inserted index i and every field element x other than the
\* leaf inserted at i, verifyMerkleProof(x, getProof(i)) is false.
C4_OtherLeafRejected ==
    \A i \in 0..(leafCount(T1) - 1) : \A x \in LeafValues :
        LET r == getProof(T1, i)
        IN  (r.error = "" /\ x # SeqAt(T1.leaves, i))
                => ~verifyMerkleProof(x, r.proof)

\* What the code does keep (C4 within capacity).
C4_OtherLeafRejectedWithinCapacity ==
    \A i \in 0..(leafCount(T1) - 1) : \A x \in LeafValues :
        LET r == getProof(T1, i)
        IN  (i < Pow2(T1.height) /\ r.error = "" /\ x # SeqAt(T1.leaves, i))
                => ~verifyMerkleProof(x, r.proof)

\* C6: the tree is append-only under every order of initialize, insert,
\* getRoot and getProof: leafCount never decreases, the value stored for an
\* inserted index never changes, and a leaf the root commits to stays
\* committed.
C6_AppendOnly ==
    [][/\ leafCount(trees'[1]) >= leafCount(T1)
       /\ \A i \in 0..(leafCount(T1) - 1) :
             /\ SeqAt(trees'[1].leaves, i) = SeqAt(T1.leaves, i)
             /\ Committed(T1, i) => Committed(trees'[1], i)]_vars

\* What the code does keep (C6): the leaves array itself only grows.
C6_LeavesOnlyGrow ==
    [][/\ leafCount(trees'[1]) >= leafCount(T1)
       /\ \A i \in 0..(leafCount(T1) - 1) :
             SeqAt(trees'[1].leaves, i) = SeqAt(T1.leaves, i)]_vars

\* C7: each insert returns the leaf count from before the call and raises
\* leafCount by exactly one; nothing else changes leafCount.
C7_InsertReturnsLeafCount ==
    [][/\ ret'.op = "insert" =>
             /\ ret'.index = leafCount(trees[ret'.tree])
             /\ leafCount(trees'[ret'.tree]) = leafCount(trees[ret'.tree]) + 1
       /\ ret'.op # "insert" =>
             \A t \in TreeIds : leafCount(trees'[t]) = leafCount(trees[t])]_vars

C7_Witness ==
    ret.op = "insert" /\ ret.index = 2 /\ leafCount(T1) = 3

\* C8: getProof(index) fails with the out-of-bounds error and leaves the tree
\* unchanged whenever index >= leafCount, and it returns a proof only for the
\* index of a leaf that has been inserted.
C8_GetProofOnlyForInsertedLeaf ==
    [][ret'.op = "getProof" =>
          /\ ret'.arg >= leafCount(T1) =>
                (ret'.error = "Leaf index out of bounds" /\ trees' = trees)
          /\ ret'.error = "" => ret'.arg \in 0..(leafCount(T1) - 1)]_vars

\* What the code does keep (C8): the upper bound is checked and the tree is
\* never touched.
C8_UpperBoundChecked ==
    [][ret'.op = "getProof" =>
          /\ trees' = trees
          /\ ret'.arg >= leafCount(T1) => ret'.error = "Leaf index out of bounds"
          /\ (ret'.error = "" /\ ret'.arg >= 0) =>
                ret'.arg \in 0..(leafCount(T1) - 1)]_vars

\* ------------------------------------------------------------ other claims
Min(a, b) == IF a <= b THEN a ELSE b

C5_SdkAcceptsIffCircuitSatisfied ==
    check.called => (check.sdk <=> check.circuit)

\* What the code does keep (C5): the two agree on paths whose indices are
\* all 0 or 1, and the circuit never accepts what the SDK rejects.
C5_AgreeOnBinaryPaths ==
    check.called =>
        /\ check.circuit => check.sdk
        /\ (\A i \in DOMAIN check.proof.pathIndices :
               check.proof.pathIndices[i] \in {0, 1})
              => (check.sdk <=> check.circuit)

\* C9: however many initPoseidon/poseidonHash calls start, also before the
\* first build has completed, buildPoseidon is invoked once and every caller
\* hashes on the same cached instance.
C9_BuildRunsOnce ==
    /\ builds <= 1
    /\ \A c1, c2 \in Callers :
          (used[c1] # 0 /\ used[c2] # 0) => used[c1] = used[c2]

\* What the code does keep (C9): a call that finds the cache filled builds
\* nothing.
C9_NoBuildOnceCached ==
    [][poseidon # 0 => builds' = builds]_vars

\* C10: every note from createDepositNote and reconstructDepositNote has
\* commitment = Hash(nullifier, secret, amount) and nullifierHash =
\* Hash(nullifier), so rebuilding a created note from its secret, nullifier
\* and amount gives the same commitment and nullifierHash.
C10_NoteDigests ==
    /\ \A n \in {created, rebuilt} :
          n.present =>
              /\ n.commitment =
                    poseidonHash(<<Fe(n.nullifier), Fe(n.secret), Fe(n.amount)>>)
              /\ n.nullifierHash = poseidonHash(<<Fe(n.nullifier)>>)
    /\ (/\ created.present /\ rebuilt.present
        /\ rebuilt.secret = created.secret
        /\ rebuilt.nullifier = created.nullifier
        /\ rebuilt.amount = created.amount)
          => /\ rebuilt.commitment = created.commitment
             /\ rebuilt.nullifierHash = created.nullifierHash

C10_Witness ==
    /\ created.present /\ rebuilt.present
    /\ created.secret # created.nullifier
    /\ rebuilt.secret = created.secret
    /\ rebuilt.nullifier = created.nullifier
    /\ rebuilt.amount = created.amount
    /\ rebuilt.leafIndex = {1}

\* ------------------------------------------------ serialization claims
\* C11: deserializeNote(serializeNote(n)) has n's secret, nullifier, amount,
\* commitment and nullifierHash, and no leafIndex.
C11_SerializeRoundTrip ==
    (deserialized.called /\ serialized.note.present
        /\ deserialized.str = serialized.str) =>
            /\ deserialized.error = ""
            /\ deserialized.note.present
            /\ deserialized.note.secret = serialized.note.secret
            /\ deserialized.note.nullifier = serialized.note.nullifier
            /\ deserialized.note.amount = serialized.note.amount
            /\ deserialized.note.commitment = serialized.note.commitment
            /\ deserialized.note.nullifierHash = serialized.note.nullifierHash
            /\ deserialized.note.leafIndex = {}

\* A two-digit amount, distinct padded secrets and a leafIndex went through.
C11_Witness ==
    /\ deserialized.called
    /\ deserialized.str = serialized.str
    /\ serialized.note.present
    /\ serialized.note.amount >= 16
    /\ serialized.note.secret # serialized.note.nullifier
    /\ serialized.note.leafIndex = {1}

\* C12: a string whose tag or version is wrong, or that has not exactly five
\* dash-separated fields, makes deserializeNote fail without a note.
C12_BadFormatRejected ==
    LET parts == split(deserialized.str)
    IN  (deserialized.called
            /\ (Len(parts) # 5 \/ parts[1] # NoteTag \/ parts[2] # NoteVersion))
        => (deserialized.error # "" /\ ~deserialized.note.present)

\* Five fields with the right tag, readable numbers and the wrong version.
C12_Witness ==
    LET parts == split(deserialized.str)
    IN  /\ deserialized.called
        /\ Len(parts) = 5
        /\ parts[1] = NoteTag
        /\ parts[2] # NoteVersion
        /\ \A i \in 3..5 : BigIntHex(parts[i]).ok
        /\ deserialized.error = "Invalid note format"

\* What deserializeNote adds to C12: five well-tagged fields still fail when
\* a number does not parse.
C12_UnreadableNumberRejected ==
    (deserialized.called /\ deserialized.error = "") =>
        LET parts == split(deserialized.str)
        IN  /\ Len(parts) = 5
            /\ \A i \in 3..5 : BigIntHex(parts[i]).ok
            /\ deserialized.note.present

\* ------------------------------------------------------- stealth claims
\* The recipient the address was generated for, and its keys.
Owner == stealth.recipient

CheckedWithOwner == checked.called /\ checked.with = Owner

\* C13: checkStealthAddress with the owner's keys, the generated ephemeral
\* key and address, and the generated view tag or none, returns true.
C13_StealthRoundTrip ==
    (CheckedWithOwner /\ checked.viewTag \in {{}, {stealth.viewTag}})
        => checked.value

\* The owner's check with the generated view tag supplied.
C13_Witness ==
    /\ CheckedWithOwner
    /\ checked.viewTag = {stealth.viewTag}
    /\ checked.value

\* The owner's check without a view tag succeeds as well.
C13_WitnessNoTag ==
    /\ CheckedWithOwner
    /\ checked.viewTag = {}
    /\ checked.value

\* C14: the key deriveStealthPrivateKey returns for the owner is a valid
\* private key and privateKeyToAddress of it is the generated address.
C14_DerivedKeyControlsAddress ==
    (derived.called /\ derived.with = Owner) =>
        /\ derived.error = ""
        /\ derived.valid
        /\ derived.address = stealth.stealthAddress

\* A derivation in which spendingPrivate + h wrapped around the group order.
C14_Witness ==
    /\ derived.called
    /\ derived.with = Owner
    /\ derived.valid
    /\ derived.address = stealth.stealthAddress
    /\ BigIntHex(slice2(derived.key)).value
         < BigIntHex(slice2(keys[Owner].spendingPrivateKey)).value

CheckedWithOther ==
    /\ checked.called
    /\ checked.with # Owner
    /\ keys[checked.with] # keys[Owner]

SharedPoint ==
    getSharedSecret(stealth.ephemeralPrivateKey,
        hexToBytes(slice2(keys[Owner].viewingPublicKey)).bytes).bytes

\* C17: the generated view tag is the first byte of keccak256(S), the digest
\* the scalar h is derived from.
C17_ViewTagFromSharedDigest ==
    (stealth.called /\ stealth.error = "")
        => stealth.viewTag = keccak_256(SharedPoint)[1]

\* What the code computes instead: the first byte of the digest of that
\* digest, on the sender's side and on the recipient's.
C17_ViewTagFromDigestOfDigest ==
    (stealth.called /\ stealth.error = "")
        => stealth.viewTag = keccak_256(keccak_256(SharedPoint))[1]

\* The try block on the arguments of the latest call.
CheckedBody ==
    CheckBody(checked.ephemeralPubKey, checked.viewingPrivateKey,
              checked.spendingPublicKey, checked.announcedAddress,
              checked.viewTag)

\* C16: checkStealthAddress never throws; it returns a boolean, and false
\* whenever parsing or curve arithmetic failed.
C16_CheckNeverThrows ==
    checked.called =>
        /\ ~checked.threw
        /\ checked.value \in BOOLEAN
        /\ CheckedBody.threw => ~checked.value

\* A call in which parsing or curve arithmetic failed, answered with false.
C16_Witness ==
    /\ checked.called
    /\ CheckedBody.threw
    /\ ~checked.threw
    /\ ~checked.value

\* The well-formed arguments among the drawn ones can still be accepted.
C16_WitnessAccepted ==
    /\ checked.called
    /\ checked.with = 0
    /\ checked.value

\* ------------------------------------------------------ scanning claims
\* The announcements of the scanner that lie in a block at or above the
\* initial fromBlock, as block numbers.
OwnBlocks ==
    {b \in 1..Len(chain) :
        /\ b >= initialFromBlock
        /\ \E i \in 1..Len(chain[b]) : chain[b][i].ours}

DeliveredBlocks == {delivered[i].blockNumber : i \in 1..Len(delivered)}

\* Still on its way: in the getLogs answer of the scan in flight, or among
\* the payments it resolved to.
InFetched(b) ==
    \/ \E i \in 1..Len(fetched) : fetched[i].blockNumber = b
    \/ \E i \in 1..Len(resolved) : resolved[i].blockNumber = b

\* C18: at-least-once delivery.  Scans start at the watermark, which never
\* goes down, so while the watcher is not stopped every announcement of the
\* recipient the watermark has passed must have been passed to onPayment.
C18_NoOwnAnnouncementSkipped ==
    \A b \in OwnBlocks :
        (isRunning /\ lastBlock > b /\ ~InFetched(b)) => b \in DeliveredBlocks

\* What the watcher does deliver: only announcements of the recipient, each
\* from a block of the chain at or above the initial fromBlock.
C18_DeliveredAreOwn == DeliveredBlocks \subseteq OwnBlocks

\* C19: once the stop handle was invoked no new scan starts and the loop
\* ends, the scan in flight being completed first.
C19_StopEndsPolling ==
    /\ [][(~isRunning /\ pollPc' = "scanning") => pollPc = "scanning"]_vars
    /\ (~isRunning) ~> (pollPc = "done")

\* The loop has ended after a payment of the scan that was in flight when
\* stop was invoked went to onPayment.
C19_Witness ==
    /\ ~isRunning
    /\ pollPc = "done"
    /\ \E i \in 1..Len(delivered) : delivered[i].afterStop

\* Entries whose ephemeral key and metadata were encoded well-formed.
WellFormedKinds == {"plain", "foreign", "topicWord", "noTopic"}

\* checkStealthAddress on the entry as the sender encoded it.
Accepts(log) ==
    LET metadata == parseMetadata(extractMetadata(log.data).hex)
    IN  checkStealthAddress(extractEphemeralPubKey(log.data).hex,
            ScannerKeys.viewingPrivateKey, ScannerKeys.spendingPublicKey,
            log.topics2, {metadata.viewTag}).value

BlocksOf(entries) == [i \in 1..Len(entries) |-> entries[i].blockNumber]

\* C20: scanAnnouncements returns, in order, exactly the payments of the
\* well-formed entries checkStealthAddress accepts; a malformed entry gives
\* no payment and does not stop the scan.
C20_OnlyWellFormedMatches ==
    scanned.called =>
        BlocksOf(scanned.payments) =
            BlocksOf(SelectSeq(gotLogs,
                LAMBDA log : log.kind \in WellFormedKinds /\ Accepts(log)))

\* What the scan does return: the scanner's entries whose topic is the bare
\* address, with full metadata or with the view tag alone; entries it cannot
\* decode are skipped and the later ones still processed.
C20_ReturnsBareTopicEntries ==
    scanned.called =>
        BlocksOf(scanned.payments) =
            BlocksOf(SelectSeq(gotLogs,
                LAMBDA log : log.kind \in {"plain", "tagOnly"}))

\* ------------------------------------------------ circuit: fee constraints
\* The scalar field of the proof system, scaled down to a small prime.
SNARK_P == 23

\* LessThan(64), scaled down: the comparator works on FEE_BITS-bit numbers.
FEE_BITS == 3

\* The constant 1000 the fee is compared with, scaled down.
FEE_LIMIT == 5

\* a - b in the field.
FieldSub(a, b) == (a + SNARK_P - (b % SNARK_P)) % SNARK_P

\* circomlib Num2Bits(n): out[i] = (in >> i) & 1, each out[i] binary, and
\* sum out[i] * 2^i === in, which no witness meets once in >= 2^n.
Num2Bits(n, in) ==
    [ok |-> in < Pow2(n),
     out |-> [i \in 0..(n - 1) |-> (in \div Pow2(i)) % 2]]

\* circomlib LessThan(n): n2b = Num2Bits(n + 1) on in[0] + (1 << n) - in[1],
\* out = 1 - n2b.out[n].  The inputs themselves are not range-checked.
LessThan(n, in0, in1) ==
    LET n2b == Num2Bits(n + 1, FieldSub((in0 + Pow2(n)) % SNARK_P, in1))
    IN  [ok |-> n2b.ok, out |-> FieldSub(1, n2b.out[n])]

\* circomlib IsZero: out = 1 for in = 0 and 0 otherwise.
IsZero(in) == [ok |-> TRUE, out |-> IF in = 0 THEN 1 ELSE 0]

\* TRUE iff the signals satisfy the relayer fee constraints of PrivateSwap.
FeeConstraints(relayer, relayerFee) ==
    LET feeCheck == LessThan(FEE_BITS, relayerFee, FEE_LIMIT)
        relayerIsZero == IsZero(relayer)
    IN  /\ feeCheck.ok
        /\ feeCheck.out = 1
        /\ (relayerIsZero.out * relayerFee) % SNARK_P = 0

\* Witnesses: every relayer and relayerFee signal of the field.
InitFee ==
    /\ InitIdle("fee")
    /\ \E relayer \in 0..(SNARK_P - 1), relayerFee \in 0..(SNARK_P - 1) :
          fee = [NoFee EXCEPT !.relayer = relayer, !.relayerFee = relayerFee]

\* The prover evaluates the constraints on the witness.
CheckFee ==
    /\ ~fee.called
    /\ fee' = [fee EXCEPT !.called = TRUE,
                          !.accepted = FeeConstraints(fee.relayer,
                                                      fee.relayerFee)]
    /\ UNCHANGED <<coreVars, serialVars, stealthVars, scanWatchVars,
                  formatted, proofInput, claim, swap, race, deposits>>

NextFee == CheckFee

SpecFee == InitFee /\ [][NextFee]_vars

\* C21: the fee constraints accept only a relayerFee below the limit, and
\* with relayer = 0 only relayerFee = 0.
C21_FeeBelowLimit ==
    (fee.called /\ fee.accepted) =>
        /\ fee.relayerFee < FEE_LIMIT
        /\ fee.relayer = 0 => fee.relayerFee = 0

\* What the constraints do accept: the fees below the limit and the top
\* 2^FEE_BITS - FEE_LIMIT values of the field, which wrap around.
C21_AcceptedFees ==
    fee.called =>
        (fee.accepted <=>
            /\ \/ fee.relayerFee < FEE_LIMIT
               \/ fee.relayerFee >= SNARK_P - Pow2(FEE_BITS) + FEE_LIMIT
            /\ fee.relayer = 0 => fee.relayerFee = 0)

\* The three cases the claim names behave as it says.
C21_NamedCases ==
    fee.called =>
        /\ fee.relayerFee = FEE_LIMIT => ~fee.accepted
        /\ (fee.relayerFee = FEE_LIMIT - 1 /\ fee.relayer # 0) => fee.accepted
        /\ (fee.relayer = 0 /\ fee.relayerFee # 0) => ~fee.accepted

\* --------------------------------------------------- formatProofForContract
\* Largest coordinate value of the proofs drawn.
MaxCoord == 1

\* JavaScript arrays are held as sequences: arr[i] is the sequence's i + 1.
FormatProofNoSwap(proof, publicSignals) ==
    [pA |-> <<proof.pi_a[1], proof.pi_a[2]>>,
     pB |-> <<<<proof.pi_b[1][1], proof.pi_b[1][2]>>,
              <<proof.pi_b[2][1], proof.pi_b[2][2]>>>>,
     pC |-> <<proof.pi_c[1], proof.pi_c[2]>>,
     pubSignals |-> publicSignals]

formatProofForContract(proof, publicSignals) ==
    [pA |-> <<proof.pi_a[1], proof.pi_a[2]>>,
     pB |-> <<<<proof.pi_b[1][2], proof.pi_b[1][1]>>,
              <<proof.pi_b[2][2], proof.pi_b[2][1]>>>>,
     pC |-> <<proof.pi_c[1], proof.pi_c[2]>>,
     pubSignals |-> publicSignals]

\* Groth16 proofs as snarkjs returns them: projective points of three
\* coordinates, the G2 point's being pairs.
Proofs ==
    [pi_a : [1..3 -> 0..MaxCoord],
     pi_b : [1..3 -> [1..2 -> 0..MaxCoord]],
     pi_c : [1..3 -> 0..1]]

SignalLists == {<<>>, <<7>>, <<1, 2, 3, 4, 5, 6>>, <<6, 5, 4, 3, 2, 1, 0, 0>>}

InitFormat ==
    /\ InitIdle("formatted")
    /\ \E proof \in Proofs, publicSignals \in SignalLists :
          formatted = [NoFormatted EXCEPT !.proof = proof,
                                          !.publicSignals = publicSignals]

CallFormatProofForContract ==
    /\ ~formatted.called
    /\ formatted' = [formatted EXCEPT
            !.called = TRUE,
            !.result = formatProofForContract(formatted.proof,
                                              formatted.publicSignals)]
    /\ UNCHANGED <<coreVars, serialVars, stealthVars, scanWatchVars, fee,
                  proofInput, claim, swap, race, deposits>>

NextFormat == CallFormatProofForContract

SpecFormat == InitFormat /\ [][NextFormat]_vars

\* C22: pA and pC are the first two coordinates of pi_a and pi_c, pB the
\* first two pairs of pi_b with their components swapped, pubSignals the
\* public signals as given; no third coordinate appears.
C22_FormatProof ==
    formatted.called =>
        LET proof == formatted.proof
            out == formatted.result
        IN  /\ out.pA = SubSeq(proof.pi_a, 1, 2)
            /\ out.pC = SubSeq(proof.pi_c, 1, 2)
            /\ Len(out.pB) = 2
            /\ \A i \in 1..2 :
                  /\ Len(out.pB[i]) = 2
                  /\ out.pB[i][1] = proof.pi_b[i][2]
                  /\ out.pB[i][2] = proof.pi_b[i][1]
            /\ out.pubSignals = formatted.publicSignals

\* A proof whose pairs have two different components and whose third
\* coordinates differ from the first two was formatted.
C22_Witness ==
    /\ formatted.called
    /\ formatted.proof.pi_b[1][1] # formatted.proof.pi_b[1][2]
    /\ formatted.proof.pi_b[2][1] # formatted.proof.pi_b[2][2]
    /\ formatted.proof.pi_a[3] # formatted.proof.pi_a[1]
    /\ formatted.proof.pi_c[3] # formatted.proof.pi_c[2]
    /\ formatted.publicSignals # <<>>

\* ------------------------------------------------- generateProof's input
RECURSIVE toString10(_)
\* bigint.toString() and, on the integers used here, number.toString().
toString10(n) ==
    IF n < 0 THEN <<Dash>> \o toString10(0 - n)
    ELSE IF n < 10 THEN <<HexDigits[n + 1]>>
    ELSE toString10(n \div 10) \o <<HexDigits[(n % 10) + 1]>>

\* formatProofForCircuit: the elements as strings, the indices as they are.
formatProofForCircuit(proof) ==
    [pathElements |-> [i \in 1..Len(proof.pathElements) |->
                            toString10(proof.pathElements[i])],
     pathIndices |-> proof.pathIndices]

\* x || d for an optional string x: undefined and "" are falsy.
OrString(x, d) == IF x = UndefinedArg \/ x = <<>> THEN d ELSE x

\* x || 0 for an optional number x, held as the set of its values.
OrZero(x) == IF x = {} \/ x = {0} THEN 0 ELSE CHOOSE n \in x : TRUE

\* const input: CircuitInput = {...} of generateProof.
CircuitInput(note, merkleProof, swapParams) ==
    LET path == formatProofForCircuit(merkleProof)
    IN  [merkleRoot |-> toString10(merkleProof.root),
         nullifierHash |-> toString10(note.nullifierHash),
         recipient |-> swapParams.recipient,
         relayer |-> OrString(swapParams.relayer, <<"0">>),
         relayerFee |-> toString10(OrZero(swapParams.relayerFee)),
         swapAmountOut |-> toString10(swapParams.expectedAmountOut),
         secret |-> toString10(note.secret),
         nullifier |-> toString10(note.nullifier),
         depositAmount |-> toString10(note.amount),
         pathElements |-> path.pathElements,
         pathIndices |-> path.pathIndices]

\* Deposit notes, Merkle proofs and swap parameters handed to generateProof.
\* Addresses come as hex strings, as stealth addresses and the relayer's
\* info carry them, or as decimal numerals; relayer and fee may be missing.
InputNotes ==
    [secret : {0, 12}, nullifier : {5, 140}, amount : {3},
     nullifierHash : {9, 255}]

InputProofs ==
    {[root |-> 7, pathElements |-> <<>>, pathIndices |-> <<>>],
     [root |-> 100, pathElements |-> <<4, 11>>, pathIndices |-> <<0, 1>>]}

InputSwapParams ==
    [recipient : {<<"5">>, <<"4", "2">>, Hex(<<5>>), Hex(<<10, 11>>)},
     relayer : {UndefinedArg, <<>>, <<"0">>, <<"7">>, Hex(<<7>>)},
     relayerFee : {{}, {0}, {25}},
     expectedAmountOut : {0, 3}]

InitProofInput ==
    /\ InitIdle("proofInput")
    /\ \E note \in InputNotes, merkleProof \in InputProofs,
          swapParams \in InputSwapParams :
            proofInput = [NoProofInput EXCEPT !.note = note,
                                              !.merkleProof = merkleProof,
                                              !.swapParams = swapParams]

\* generateProof up to the call of the prover.
CallGenerateProof ==
    /\ ~proofInput.called
    /\ proofInput' = [proofInput EXCEPT
            !.called = TRUE,
            !.input = CircuitInput(proofInput.note, proofInput.merkleProof,
                                   proofInput.swapParams)]
    /\ UNCHANGED <<coreVars, serialVars, stealthVars, scanWatchVars, fee,
                  formatted, claim, swap, race, deposits>>

NextProofInput == CallGenerateProof

SpecProofInput == InitProofInput /\ [][NextProofInput]_vars

DecimalDigits == {HexDigits[i] : i \in 1..10}

\* A decimal numeral: one or more digits and nothing else.
IsDecimalNumeral(str) ==
    /\ Len(str) >= 1
    /\ \A i \in 1..Len(str) : str[i] \in DecimalDigits

PublicSignalNames ==
    {"merkleRoot", "nullifierHash", "recipient", "relayer", "relayerFee",
     "swapAmountOut"}

PrivateSignalNames ==
    {"secret", "nullifier", "depositAmount", "pathElements", "pathIndices"}

\* C23: the input holds exactly the six public and five private signals,
\* and each of them but pathIndices is a decimal numeral string (each
\* element of pathElements is one).
C23_InputIsDecimal ==
    proofInput.called =>
        LET input == proofInput.input
        IN  /\ DOMAIN input = PublicSignalNames \cup PrivateSignalNames
            /\ \A name \in DOMAIN input \ {"pathElements", "pathIndices"} :
                  IsDecimalNumeral(input[name])
            /\ \A i \in 1..Len(input.pathElements) :
                  IsDecimalNumeral(input.pathElements[i])

\* What the input does hold: the eleven signals, decimal numerals for all
\* of them but recipient and relayer, which are the caller's strings as
\* given ("0" for a missing relayer).
C23_InputButAddressesIsDecimal ==
    proofInput.called =>
        LET input == proofInput.input
        IN  /\ DOMAIN input = PublicSignalNames \cup PrivateSignalNames
            /\ \A name \in DOMAIN input \ {"pathElements", "pathIndices",
                                           "recipient", "relayer"} :
                  IsDecimalNumeral(input[name])
            /\ \A i \in 1..Len(input.pathElements) :
                  IsDecimalNumeral(input.pathElements[i])
            /\ input.pathIndices = proofInput.merkleProof.pathIndices
            /\ input.recipient = proofInput.swapParams.recipient
            /\ input.relayer =
                  OrString(proofInput.swapParams.relayer, <<"0">>)

\* ------------------------------------------------------ claimStealthTokens
\* Largest token balance the node reports.
MaxBalance == 2

\* The fallback gas limit of estimateGas.
FALLBACK_GAS == 65000

\* padStart(64, "0") of the calldata words, scaled down.
CALL_WORD == 4

ERC20_TRANSFER == <<"0", "x", "a", "9", "0", "5", "9", "c", "b", "b">>

\* encodeERC20Transfer: selector, padded address, padded amount.
encodeERC20Transfer(to, amount) ==
    ERC20_TRANSFER \o padStart(toLowerCase(slice2(to)), CALL_WORD, "0")
        \o padStart(toString16(amount), CALL_WORD, "0")

\* What a JSON-RPC request of the claim can come back with: a result, an
\* error object in the reply, or no reply (fetch rejects, or the body is no
\* JSON and response.json() rejects).
Reply(kind, result) == [kind |-> kind, result |-> result]

RpcFailures == {Reply("error", <<>>), Reply("network", <<>>)}

\* A quantity as the node encodes it.
Quantity(n) == HexPrefix \o toString16(n)

\* BigInt(json.result || "0x0")
ResultToBigInt(result) ==
    BigIntHex(slice2(IF result = <<>> THEN Quantity(0) ELSE result))

\* catch (error): success false with the error's message.
ClaimCatches(msg) ==
    claim' = [claim EXCEPT !.pc = "done",
                           !.result = ClaimResult(FALSE, "", "", "", msg)]

\* claimStealthTokens up to the first await: derive the key and the
\* address, and request the token balance.
ClaimStart ==
    /\ claim.pc = "start"
    /\ LET key == deriveStealthPrivateKey(ScannerKeys.viewingPrivateKey,
                        ScannerKeys.spendingPrivateKey, claim.ephemeralPubKey)
           address == privateKeyToAddress(key.key)
       IN  IF key.error # "" \/ ~address.ok
           THEN ClaimCatches("derive")
           ELSE claim' = [claim EXCEPT
                    !.pc = "balance",
                    !.stealthAddress = address.address,
                    !.requests = Append(@, "eth_call")]
    /\ UNCHANGED <<coreVars, serialVars, stealthVars, scanWatchVars, fee,
                  formatted, proofInput, swap, race, deposits>>

\* The balance checks left out.
ClaimBalanceUnchecked(reply) ==
    /\ claim.pc = "balance"
    /\ LET balance == ResultToBigInt(reply.result)
           transferAmount ==
               IF claim.amount = {} THEN balance.value
               ELSE CHOOSE a \in claim.amount : TRUE
       IN  IF reply.kind # "result" \/ ~balance.ok
           THEN claim' = [claim EXCEPT
                    !.pc = "done",
                    !.result = ClaimResult(FALSE, "", "", "", "rpc")]
           ELSE claim' = [claim EXCEPT
                    !.pc = "nonceGas",
                    !.balance = {balance.value},
                    !.transferAmount = transferAmount,
                    !.calldata = encodeERC20Transfer(claim.toAddress,
                                                     transferAmount),
                    !.requests = @ \o <<"eth_getTransactionCount",
                                        "eth_gasPrice">>]
    /\ UNCHANGED <<coreVars, serialVars, stealthVars, scanWatchVars, fee,
                  formatted, proofInput, swap, race, deposits>>

\* getERC20Balance resolves or rejects; then the balance checks, the
\* calldata, and the requests for nonce and gas price (Promise.all).
ClaimBalance(reply) ==
    /\ claim.pc = "balance"
    /\ LET balance == ResultToBigInt(reply.result)
           transferAmount ==
               IF claim.amount = {} THEN balance.value
               ELSE CHOOSE a \in claim.amount : TRUE
       IN  IF reply.kind # "result" \/ ~balance.ok
           THEN claim' = [claim EXCEPT
                    !.pc = "done",
                    !.result = ClaimResult(FALSE, "", "", "", "rpc")]
           ELSE IF balance.value = 0
           THEN claim' = [claim EXCEPT
                    !.pc = "done",
                    !.balance = {balance.value},
                    !.result = ClaimResult(FALSE, "", claim.stealthAddress,
                                   "", "No token balance")]
           ELSE IF transferAmount > balance.value
           THEN claim' = [claim EXCEPT
                    !.pc = "done",
                    !.balance = {balance.value},
                    !.result = ClaimResult(FALSE, "", claim.stealthAddress,
                                   toString10(balance.value),
                                   "Insufficient balance")]
           ELSE claim' = [claim EXCEPT
                    !.pc = "nonceGas",
                    !.balance = {balance.value},
                    !.transferAmount = transferAmount,
                    !.calldata = encodeERC20Transfer(claim.toAddress,
                                                     transferAmount),
                    !.requests = @ \o <<"eth_getTransactionCount",
                                        "eth_gasPrice">>]
    /\ UNCHANGED <<coreVars, serialVars, stealthVars, scanWatchVars, fee,
                  formatted, proofInput, swap, race, deposits>>

\* Promise.all of getNonce and getGasPrice settles; then the estimateGas
\* request.
ClaimNonceGas(reply) ==
    /\ claim.pc = "nonceGas"
    /\ IF reply.kind # "result"
       THEN ClaimCatches("rpc")
       ELSE claim' = [claim EXCEPT
                !.pc = "estimate",
                !.requests = Append(@, "eth_estimateGas")]
    /\ UNCHANGED <<coreVars, serialVars, stealthVars, scanWatchVars, fee,
                  formatted, proofInput, swap, race, deposits>>

\* estimateGas: the fallback for an error reply, else the estimate plus 20%.
estimateGas(reply) ==
    IF reply.kind = "network" THEN [ok |-> FALSE, gas |-> 0]
    ELSE IF reply.kind = "error" THEN [ok |-> TRUE, gas |-> FALLBACK_GAS]
    ELSE LET estimated == ResultToBigInt(reply.result)
         IN  [ok |-> estimated.ok, gas |-> (estimated.value * 120) \div 100]

\* estimateGas settles; then signAndSend signs the transfer and submits it.
ClaimEstimate(reply) ==
    /\ claim.pc = "estimate"
    /\ LET gasLimit == estimateGas(reply)
       IN  IF ~gasLimit.ok
           THEN claim' = [claim EXCEPT
                    !.pc = "done", !.estimateReply = reply.kind,
                    !.result = ClaimResult(FALSE, "", "", "", "rpc")]
           ELSE claim' = [claim EXCEPT
                    !.pc = "send",
                    !.estimateReply = reply.kind,
                    !.estimated = reply.result,
                    !.gasLimit = gasLimit.gas,
                    !.requests = Append(@, "eth_sendRawTransaction"),
                    !.sent = Append(@, [from |-> claim.stealthAddress,
                                        data |-> claim.calldata,
                                        gasLimit |-> gasLimit.gas])]
    /\ UNCHANGED <<coreVars, serialVars, stealthVars, scanWatchVars, fee,
                  formatted, proofInput, swap, race, deposits>>

\* eth_sendRawTransaction settles.
ClaimSend(reply) ==
    /\ claim.pc = "send"
    /\ IF reply.kind # "result"
       THEN ClaimCatches("rpc")
       ELSE claim' = [claim EXCEPT
                !.pc = "done",
                !.result = ClaimResult(TRUE, reply.result,
                               claim.stealthAddress,
                               toString10(claim.transferAmount), "")]
    /\ UNCHANGED <<coreVars, serialVars, stealthVars, scanWatchVars, fee,
                  formatted, proofInput, swap, race, deposits>>

\* Gas estimates of the node: the last one is no multiple of five.
GasEstimates == {0, 21000, 51}

\* Calls: with and without an explicit amount, with an ephemeral key that
\* is a point and one that is no hex, to an address in mixed case and to a
\* short one.
InitClaim ==
    /\ InitIdle("claim")
    /\ \E amount \in {{}} \cup {{a} : a \in 0..(MaxBalance + 1)},
          ephemeralPubKey \in {Hex(<<2, 1>>), NotHex},
          toAddress \in {HexPrefix \o <<"a", "B">>, HexPrefix \o <<"7">>} :
            claim = [NoClaim EXCEPT !.pc = "start", !.amount = amount,
                                    !.ephemeralPubKey = ephemeralPubKey,
                                    !.toAddress = toAddress]

NextClaim ==
    \/ ClaimStart
    \/ \E reply \in {Reply("result", Quantity(b)) : b \in 0..MaxBalance}
                        \cup {Reply("result", <<>>)} \cup RpcFailures :
          ClaimBalance(reply)
    \/ \E reply \in {Reply("result", <<>>)} \cup RpcFailures :
          ClaimNonceGas(reply)
    \/ \E reply \in {Reply("result", Quantity(g)) : g \in GasEstimates}
                        \cup {Reply("result", <<>>)} \cup RpcFailures :
          ClaimEstimate(reply)
    \/ \E reply \in {Reply("result", Hex(<<1, 2>>))} \cup RpcFailures :
          ClaimSend(reply)

SpecClaim == InitClaim /\ [][NextClaim]_vars


\* How often the call has sent a request of the given method.
Requested(method) ==
    Cardinality({i \in 1..Len(claim.requests) : claim.requests[i] = method})

\* The amount word of a transfer's calldata.
CalldataAmount(data) ==
    BigIntHex(SubSeq(data, Len(data) - CALL_WORD + 1, Len(data))).value

\* The balance check fails: nothing at the address, or less than asked for.
BalanceCheckFails ==
    /\ claim.balance # {}
    /\ \/ claim.balance = {0}
       \/ \E a \in claim.amount : \A b \in claim.balance : a > b

\* C24: claimStealthTokens submits eth_sendRawTransaction at most once per
\* call (no request is repeated) and only after the balance was read and
\* the check on it passed; with no explicit amount the transfer carries
\* exactly the balance read; with a zero balance, or with an explicit amount
\* above the balance, the call ends with success false and an error and
\* has sent no transaction.
C24_SendOnceAfterBalanceCheck ==
    /\ \A method \in {"eth_call", "eth_getTransactionCount", "eth_gasPrice",
                      "eth_estimateGas", "eth_sendRawTransaction"} :
          Requested(method) <= 1
    /\ Len(claim.sent) = Requested("eth_sendRawTransaction")
    /\ \A i \in 1..Len(claim.sent) :
          /\ claim.requests[1] = "eth_call"
          /\ ~BalanceCheckFails
          /\ \E b \in claim.balance :
                /\ b > 0
                /\ claim.transferAmount <= b
                /\ CalldataAmount(claim.sent[i].data) = claim.transferAmount
                /\ claim.amount = {} => claim.transferAmount = b
    /\ BalanceCheckFails =>
          /\ claim.pc = "done"
          /\ claim.result.success = FALSE
          /\ claim.result.error # ""
          /\ claim.sent = <<>>

\* A claim without an explicit amount has gone through.
C24_Witness ==
    /\ claim.pc = "done"
    /\ claim.result.success
    /\ claim.amount = {}
    /\ Len(claim.sent) = 1

\* C29: whenever the eth_estimateGas request yields an error of any kind,
\* the gas limit 65000 is used and the claim proceeds to signing and
\* submission; when the estimate arrives, the limit is the estimate plus 20%.
C29_EstimateFailureFallsBack ==
    /\ claim.estimateReply \in {"error", "network"} =>
          /\ Len(claim.sent) = 1
          /\ claim.sent[1].gasLimit = FALLBACK_GAS
    /\ claim.estimateReply = "result" /\ claim.sent # <<>> =>
          \E estimate \in GasEstimates :
              /\ claim.estimated \in {Quantity(estimate)}
                     \cup (IF estimate = 0 THEN {<<>>} ELSE {})
              /\ 5 * claim.sent[1].gasLimit <= 6 * estimate
              /\ 6 * estimate < 5 * (claim.sent[1].gasLimit + 1)

\* What does hold: an error object in the reply gives the fallback and the
\* claim goes on; no reply ends the claim unsent.
C29_OnlyErrorReplyFallsBack ==
    /\ claim.estimateReply = "error" =>
          /\ Len(claim.sent) = 1
          /\ claim.sent[1].gasLimit = FALLBACK_GAS
    /\ claim.estimateReply = "network" =>
          /\ claim.sent = <<>>
          /\ claim.pc = "done"
          /\ claim.result.success = FALSE
    /\ claim.estimateReply = "result" /\ claim.sent # <<>> =>
          \E estimate \in GasEstimates :
              /\ claim.estimated \in {Quantity(estimate)}
                     \cup (IF estimate = 0 THEN {<<>>} ELSE {})
              /\ 5 * claim.sent[1].gasLimit <= 6 * estimate
              /\ 6 * estimate < 5 * (claim.sent[1].gasLimit + 1)

\* ------------------------------------------------------ executePrivateSwap
\* Most commitments a pool holds.
MaxDeposits == 3

RECURSIVE InsertLeaves(_, _)
InsertLeaves(tr, leaves) ==
    IF leaves = <<>> THEN tr
    ELSE InsertLeaves(insert(tr, Head(leaves)).tree, Tail(leaves))

\* buildMerkleTree: a new tree, initialized, with the leaves inserted in
\* order.
buildMerkleTree(leaves) ==
    InsertLeaves(initialize(NewMerkleTree(CircuitLevels)), leaves)

\* The commitments of a pool with that many deposits.
Deposits(count) == [i \in 1..count |-> <<100 + i>>]

\* executePrivateSwap throws.
SwapThrows(msg) == [swap EXCEPT !.pc = "done", !.error = msg]

\* The leaf index and the proof lookup left unchecked.
SwapFromCommitmentsUnchecked(sw, commitments) ==
    LET tree == buildMerkleTree(commitments)
    IN  [sw EXCEPT !.leaves = {Len(tree.leaves)},
                   !.pc = "prove", !.proverCalls = @ + 1]

\* executePrivateSwap from the commitments to the call of the prover: the
\* tree, the check of note.leafIndex, the proof lookup.
SwapFromCommitments(sw, commitments) ==
    LET tree == buildMerkleTree(commitments)
        built == [sw EXCEPT !.leaves = {Len(tree.leaves)}]
    IN  IF sw.leafIndex = {}
        THEN [built EXCEPT !.pc = "done",
                           !.error = "note.leafIndex is required"]
        ELSE LET merkleProof ==
                     getProof(tree, CHOOSE i \in sw.leafIndex : TRUE)
             IN  IF merkleProof.error # ""
                 THEN [built EXCEPT !.pc = "done",
                                    !.error = merkleProof.error]
                 ELSE [built EXCEPT !.pc = "prove", !.proverCalls = @ + 1]

\* executePrivateSwap up to the first await: the request for the relayer's
\* address and fee.
SwapStart ==
    /\ swap.pc = "start"
    /\ swap' = [swap EXCEPT !.pc = "info", !.infoRequests = @ + 1]
    /\ UNCHANGED <<coreVars, serialVars, stealthVars, scanWatchVars, fee,
                  formatted, proofInput, claim, race, deposits>>

\* getRelayerInfo settles; the commitments are the ones handed in, or
\* fetchDeposits is called for them.
SwapInfo(ok) ==
    /\ swap.pc = "info"
    /\ swap' = IF ~ok THEN SwapThrows("Failed to get relayer info")
               ELSE IF swap.preloaded # {}
               THEN SwapFromCommitments(swap,
                        CHOOSE c \in swap.preloaded : TRUE)
               ELSE [swap EXCEPT !.pc = "deposits",
                                 !.depositFetches = @ + 1]
    /\ UNCHANGED <<coreVars, serialVars, stealthVars, scanWatchVars, fee,
                  formatted, proofInput, claim, race, deposits>>

\* fetchDeposits settles.
SwapDeposits(ok, commitments) ==
    /\ swap.pc = "deposits"
    /\ swap' = IF ~ok THEN SwapThrows("RPC error")
               ELSE SwapFromCommitments(swap, commitments)
    /\ UNCHANGED <<coreVars, serialVars, stealthVars, scanWatchVars, fee,
                  formatted, proofInput, claim, race, deposits>>

\* generateProofFromBuffers settles; the proof is formatted and handed to
\* submitToRelayer.
SwapProve(ok) ==
    /\ swap.pc = "prove"
    /\ swap' = IF ~ok THEN SwapThrows("prover")
               ELSE [swap EXCEPT !.pc = "submit", !.submissions = @ + 1]
    /\ UNCHANGED <<coreVars, serialVars, stealthVars, scanWatchVars, fee,
                  formatted, proofInput, claim, race, deposits>>

\* submitToRelayer settles: the relayer's response, a failure response for
\* a status that is not ok, or a rejection.
SwapSubmit(outcome) ==
    /\ swap.pc = "submit"
    /\ swap' = IF outcome = "rejects" THEN SwapThrows("fetch")
               ELSE [swap EXCEPT !.pc = "done", !.response = outcome]
    /\ UNCHANGED <<coreVars, serialVars, stealthVars, scanWatchVars, fee,
                  formatted, proofInput, claim, race, deposits>>

\* Calls: a note with and without a leaf index, with and without the
\* commitments handed in.
InitSwap ==
    /\ InitIdle("swap")
    /\ \E leafIndex \in {{}} \cup {{i} : i \in 0..MaxDeposits},
          preloaded \in {{}} \cup {{Deposits(n)} : n \in 0..MaxDeposits} :
            swap = [NoSwap EXCEPT !.pc = "start", !.leafIndex = leafIndex,
                                  !.preloaded = preloaded]

NextSwap ==
    \/ SwapStart
    \/ \E ok \in BOOLEAN : SwapInfo(ok)
    \/ \E ok \in BOOLEAN, n \in 0..MaxDeposits : SwapDeposits(ok, Deposits(n))
    \/ \E ok \in BOOLEAN : SwapProve(ok)
    \/ \E outcome \in {"success", "failure", "rejects"} : SwapSubmit(outcome)

SpecSwap == InitSwap /\ [][NextSwap]_vars

\* The note's leaf index is undefined, or is no index of the tree built.
NoLeafOfTree ==
    \/ swap.leafIndex = {}
    \/ \E i \in swap.leafIndex, n \in swap.leaves : i >= n

\* C25: executePrivateSwap with a note whose leafIndex is undefined, or is
\* at least the number of commitments in the tree, never invokes the prover
\* and never submits to the relayer, and once the tree is built the call
\* has failed with an error.
C25_NoLeafNoProof ==
    NoLeafOfTree =>
        /\ swap.proverCalls = 0
        /\ swap.submissions = 0
        /\ swap.response = ""
        /\ swap.leaves # {} => swap.pc = "done" /\ swap.error # ""
        /\ swap.pc = "done" => swap.error # ""

\* A call with an index beyond the tree has failed after building the tree.
C25_Witness ==
    /\ swap.pc = "done"
    /\ swap.leafIndex # {}
    /\ swap.leaves # {}
    /\ NoLeafOfTree
    /\ swap.error = "Leaf index out of bounds"

\* A call without a leaf index has failed after building the tree.
C25_WitnessUndefined ==
    /\ swap.pc = "done"
    /\ swap.leafIndex = {}
    /\ swap.leaves # {}
    /\ swap.error = "note.leafIndex is required"

\* ------------------------------------------- insert calls that overlap
\* A call of insert is suspended at an await, between its steps.
InFlight(call) == call.pc \notin {"idle", "done", "threw"}

\* The call makes a step on the tree.
RaceStep(c, tree, call) ==
    race' = [race EXCEPT !.tree = tree, !.calls[c] = call]

\* poseidonHash is called with the inputs; the call is suspended until the
\* hash arrives, and throws if an input is no number.
AwaitHash(call, at, inputs) ==
    IF \E k \in 1..Len(inputs) : inputs[k] = Undefined
    THEN [call EXCEPT !.pc = "threw"]
    ELSE [call EXCEPT !.pc = at, !.inputs = inputs]

\* updateTree from the top of its loop at the call's level, to the next
\* await or to the end.
UpdateFrom(tree, call, currentValue) ==
    IF call.level >= tree.height THEN [call EXCEPT !.pc = "updated"]
    ELSE LET isLeft == JsMod(call.currentIndex, 2) = 0
             siblingIndex == IF isLeft THEN call.currentIndex + 1
                             ELSE call.currentIndex - 1
             sibling == Coalesce(At(tree.layers[call.level + 1], siblingIndex),
                                 SeqAt(tree.zeros, call.level))
         IN  AwaitHash(call, "hash",
                       IF isLeft THEN <<currentValue, sibling>>
                       ELSE <<sibling, currentValue>>)

\* insert after the test of zeros: the index is read after the push.
PushAndUpdateIndexAfterPush(c) ==
    LET call == race.calls[c]
        index == Len(race.tree.leaves) + 1
        pushed == [race.tree EXCEPT !.leaves = Append(@, call.leaf)]
        tree == [pushed EXCEPT !.layers[1] = Put(@, index, call.leaf)]
    IN  IF 1 \notin DOMAIN pushed.layers
        THEN [tree |-> pushed, call |-> [call EXCEPT !.pc = "threw"]]
        ELSE [tree |-> tree,
              call |-> UpdateFrom(tree, [call EXCEPT !.index = {index},
                                                     !.level = 0,
                                                     !.currentIndex = index],
                                  call.leaf)]

\* insert after the test of zeros: index, push, and updateTree to its first
\* await; the store into layers[0] throws while the tree has no layers.
PushAndUpdate(c) ==
    LET call == race.calls[c]
        index == Len(race.tree.leaves)
        pushed == [race.tree EXCEPT !.leaves = Append(@, call.leaf)]
        tree == [pushed EXCEPT !.layers[1] = Put(@, index, call.leaf)]
    IN  IF 1 \notin DOMAIN pushed.layers
        THEN [tree |-> pushed, call |-> [call EXCEPT !.pc = "threw"]]
        ELSE [tree |-> tree,
              call |-> UpdateFrom(tree, [call EXCEPT !.index = {index},
                                                     !.level = 0,
                                                     !.currentIndex = index],
                                  call.leaf)]

\* insert is called: it awaits initialize on a tree without zeros.
InsertBegins(c) ==
    /\ c \in DOMAIN race.calls
    /\ race.calls[c].pc = "idle"
    /\ LET overlaps == \E d \in DOMAIN race.calls : InFlight(race.calls[d])
           next == PushAndUpdate(c)
       IN  IF DOMAIN race.tree.zeros = {}
           THEN race' = [race EXCEPT !.calls[c].pc = "initPoseidon",
                                     !.overlapped = @ \/ overlaps]
           ELSE race' = [race EXCEPT !.tree = next.tree,
                                     !.calls[c] = next.call,
                                     !.overlapped = @ \/ overlaps]
    /\ UNCHANGED <<coreVars, serialVars, stealthVars, scanWatchVars, fee,
                  formatted, proofInput, claim, swap, deposits>>

\* initialize after await initPoseidon(): zeros = [ZERO_VALUE], and the
\* loop to its first await, or the layers when the height is 0.
InitializeResumes(c) ==
    /\ c \in DOMAIN race.calls
    /\ race.calls[c].pc = "initPoseidon"
    /\ LET call == [race.calls[c] EXCEPT !.i = 1]
           zeroed == [race.tree EXCEPT !.zeros = <<ZERO_VALUE>>]
       IN  IF 1 <= race.tree.height
           THEN RaceStep(c, zeroed,
                    AwaitHash(call, "zeroHash", <<ZERO_VALUE, ZERO_VALUE>>))
           ELSE RaceStep(c, [zeroed EXCEPT !.layers = <<<<>>>>],
                         [call EXCEPT !.pc = "initialized"])
    /\ UNCHANGED <<coreVars, serialVars, stealthVars, scanWatchVars, fee,
                  formatted, proofInput, claim, swap, deposits>>

\* A hash of initialize's loop arrives: zeros[i] is set, then the next
\* level is hashed, or the layers are set to empty arrays.
ZeroHashArrives(c) ==
    /\ c \in DOMAIN race.calls
    /\ race.calls[c].pc = "zeroHash"
    /\ LET call == race.calls[c]
           tree == [race.tree EXCEPT
                       !.zeros = Put(@, call.i + 1, poseidonHash(call.inputs))]
           prevZero == SeqAt(tree.zeros, call.i)
       IN  IF call.i + 1 <= tree.height
           THEN RaceStep(c, tree,
                    AwaitHash([call EXCEPT !.i = @ + 1], "zeroHash",
                              <<prevZero, prevZero>>))
           ELSE RaceStep(c,
                    [tree EXCEPT
                        !.layers = [l \in 1..(tree.height + 1) |-> <<>>]],
                    [call EXCEPT !.pc = "initialized"])
    /\ UNCHANGED <<coreVars, serialVars, stealthVars, scanWatchVars, fee,
                  formatted, proofInput, claim, swap, deposits>>

\* insert after await this.initialize().
InsertResumes(c) ==
    /\ c \in DOMAIN race.calls
    /\ race.calls[c].pc = "initialized"
    /\ RaceStep(c, PushAndUpdate(c).tree, PushAndUpdate(c).call)
    /\ UNCHANGED <<coreVars, serialVars, stealthVars, scanWatchVars, fee,
                  formatted, proofInput, claim, swap, deposits>>

\* A hash of updateTree's loop arrives: the parent is stored, then the
\* next level is hashed.
ParentHashArrives(c) ==
    /\ c \in DOMAIN race.calls
    /\ race.calls[c].pc = "hash"
    /\ LET call == race.calls[c]
           currentValue == poseidonHash(call.inputs)
           currentIndex == FloorHalf(call.currentIndex)
           tree == [race.tree EXCEPT
                       !.layers[call.level + 2] =
                           Put(@, currentIndex, currentValue)]
       IN  RaceStep(c, tree,
               UpdateFrom(tree, [call EXCEPT !.level = @ + 1,
                                             !.currentIndex = currentIndex],
                          currentValue))
    /\ UNCHANGED <<coreVars, serialVars, stealthVars, scanWatchVars, fee,
                  formatted, proofInput, claim, swap, deposits>>

\* insert after await this.updateTree(index): it returns the index.
InsertReturns(c) ==
    /\ c \in DOMAIN race.calls
    /\ race.calls[c].pc = "updated"
    /\ race' = [race EXCEPT !.calls[c].pc = "done"]
    /\ UNCHANGED <<coreVars, serialVars, stealthVars, scanWatchVars, fee,
                  formatted, proofInput, claim, swap, deposits>>

\* Trees to insert into: a new one, an initialized one, one with a leaf.
RaceTrees ==
    {NewMerkleTree(CircuitLevels),
     initialize(NewMerkleTree(CircuitLevels)),
     insert(NewMerkleTree(CircuitLevels), <<100>>).tree}

InitRace ==
    /\ InitIdle("race")
    /\ \E tree \in RaceTrees :
          race = [NoRace EXCEPT
                     !.tree = tree,
                     !.calls = [c \in 1..NumCallers |->
                                   [NoInsertCall EXCEPT !.leaf = <<100 + c>>]]]

NextRace ==
    \E c \in 1..NumCallers :
        \/ InsertBegins(c)
        \/ InitializeResumes(c)
        \/ ZeroHashArrives(c)
        \/ InsertResumes(c)
        \/ ParentHashArrives(c)
        \/ InsertReturns(c)

SpecRace == InitRace /\ [][NextRace]_vars

\* No call of insert is suspended.
RaceQuiet == \A c \in DOMAIN race.calls : ~InFlight(race.calls[c])

\* The tree that inserting the stored leaves one after the other gives.
SerialTree == buildMerkleTree(race.tree.leaves)

\* The tree is the one serial insertion in index order gives: the same
\* root and the same stored nodes.
MatchesSerial ==
    /\ getRoot(race.tree) = getRoot(SerialTree)
    /\ race.tree.layers = SerialTree.layers
    /\ race.tree.zeros = SerialTree.zeros

\* C26: when every insert on a tree completes before the next begins, the
\* tree has the root and the stored nodes of serial insertion in index
\* order, and every call returned the index of its leaf; overlapping calls
\* can end otherwise (C26_Witness).
C26_SerialInsertsMatch ==
    RaceQuiet /\ ~race.overlapped /\ DOMAIN race.tree.zeros # {} =>
        /\ MatchesSerial
        /\ \A c \in DOMAIN race.calls :
              /\ race.calls[c].pc # "threw"
              /\ \A k \in race.calls[c].index :
                    SeqAt(race.tree.leaves, k) = race.calls[c].leaf

\* Both inserts overlapped, both returned, and the root differs from the
\* root of serial insertion.
C26_Witness ==
    /\ race.overlapped
    /\ \A c \in DOMAIN race.calls : race.calls[c].pc = "done"
    /\ getRoot(race.tree) # getRoot(SerialTree)

\* ------------------------------------------------------------ fetchDeposits
\* data.slice(0, 64): the hex digits of one ABI word, scaled down.
DATA_WORD == 2

\* The commitment the pool stored at a leaf index.
CommitmentAt(leafIndex) == 160 + leafIndex

\* The log of the Deposit event of a leaf index, mined in a block:
\* topics[1] is the commitment, data is abi.encode(leafIndex, timestamp).
DepositLog(leafIndex, blockNumber) ==
    [topics |-> <<HexPrefix, Quantity(CommitmentAt(leafIndex))>>,
     data |-> HexPrefix \o padStart(toString16(leafIndex), DATA_WORD, "0")
                        \o padStart(toString16(blockNumber), DATA_WORD, "0"),
     blockNumber |-> Quantity(blockNumber)]

\* parseInt(str, 16) of a string of hex digits.
parseInt16(str) == BigIntHex(str).value

\* One log parsed into a DepositEvent.
ParseDepositLog(log) ==
    LET data == slice2(log.data)
    IN  [commitment |-> BigIntHex(slice2(log.topics[2])).value,
         leafIndex |-> parseInt16(SubSeq(data, 1, DATA_WORD)),
         timestamp |-> BigIntHex(SubSeq(data, DATA_WORD + 1,
                                        2 * DATA_WORD)).value,
         blockNumber |-> BigIntHex(slice2(log.blockNumber)).value]

\* fetchDepositEvents on the logs the node returned.
fetchDepositEvents(logs) == [i \in 1..Len(logs) |-> ParseDepositLog(logs[i])]

RECURSIVE InsertByLeafIndex(_, _)
InsertByLeafIndex(sorted, e) ==
    IF sorted = <<>> THEN <<e>>
    ELSE IF sorted[Len(sorted)].leafIndex <= e.leafIndex
    THEN Append(sorted, e)
    ELSE Append(InsertByLeafIndex(SubSeq(sorted, 1, Len(sorted) - 1), e),
                sorted[Len(sorted)])

RECURSIVE SortByLeafIndex(_)
\* events.sort((a, b) => a.leafIndex - b.leafIndex)
SortByLeafIndex(events) ==
    IF events = <<>> THEN <<>>
    ELSE InsertByLeafIndex(
             SortByLeafIndex(SubSeq(events, 1, Len(events) - 1)),
             events[Len(events)])

\* fetchDeposits on the logs the node returned.
fetchDeposits(logs) ==
    LET events == SortByLeafIndex(fetchDepositEvents(logs))
    IN  [i \in 1..Len(events) |-> events[i].commitment]

\* The leaf indexes of the deposits mined at or after a block.
LeavesFrom(blocks, startBlock) ==
    {i \in 1..Len(blocks) : blocks[i] >= startBlock}

RECURSIVE InOrder(_, _)
\* The elements of a set of numbers in increasing or decreasing order.
InOrder(set, increasing) ==
    IF set = {} THEN <<>>
    ELSE LET m == CHOOSE x \in set : \A y \in set :
                      IF increasing THEN x <= y ELSE x >= y
         IN  <<m>> \o InOrder(set \ {m}, increasing)

\* fetchDeposits is called: the node returns the Deposit logs from
\* fromBlock || 0 to the latest block, or the request fails.
CallFetchDeposits(ok, increasing) ==
    /\ ~deposits.called
    /\ LET startBlock == IF deposits.fromBlock = {} THEN 0
                         ELSE CHOOSE b \in deposits.fromBlock : TRUE
           leaves == InOrder(LeavesFrom(deposits.blocks, startBlock),
                             increasing)
           logs == [k \in 1..Len(leaves) |->
                       DepositLog(leaves[k] - 1, deposits.blocks[leaves[k]])]
       IN  deposits' =
               IF ~ok
               THEN [deposits EXCEPT !.called = TRUE, !.error = "RPC error"]
               ELSE [deposits EXCEPT
                        !.called = TRUE,
                        !.returned = leaves,
                        !.events = fetchDepositEvents(logs),
                        !.commitments = fetchDeposits(logs)]
    /\ UNCHANGED <<coreVars, serialVars, stealthVars, scanWatchVars, fee,
                  formatted, proofInput, claim, swap, race>>

\* The blocks of the pool's deposits, in leaf index order.
PoolBlocks ==
    {blocks \in UNION {[1..n -> 1..MaxBlock] : n \in 0..MaxDeposits} :
        \A i \in 1..(Len(blocks) - 1) : blocks[i] <= blocks[i + 1]}

InitDeposits ==
    /\ InitIdle("deposits")
    /\ \E blocks \in PoolBlocks, fromBlock \in {{}} \cup {{b} : b \in 0..MaxBlock} :
          deposits = [NoDeposits EXCEPT !.blocks = blocks,
                                        !.fromBlock = fromBlock]

NextDeposits == \E ok, increasing \in BOOLEAN : CallFetchDeposits(ok, increasing)

SpecDeposits == InitDeposits /\ [][NextDeposits]_vars

\* fetchDeposits returned its array.
FetchedDeposits == deposits.called /\ deposits.error = ""

\* The leafIndex of the Deposit event that carries a commitment.
LeafIndexOf(commitment) ==
    LET k == CHOOSE k \in 1..Len(deposits.events) :
                 deposits.events[k].commitment = commitment
    IN  deposits.events[k].leafIndex

\* C28: the array fetchDeposits returns is ordered by leafIndex, and the
\* element at position i is the commitment whose Deposit event carries
\* leafIndex i, for every fromBlock and every list of returned logs.
C28_PositionIsLeafIndex ==
    FetchedDeposits =>
        /\ \A i, j \in 1..Len(deposits.commitments) :
              i < j => LeafIndexOf(deposits.commitments[i])
                          < LeafIndexOf(deposits.commitments[j])
        /\ \A i \in 1..Len(deposits.commitments) :
              /\ LeafIndexOf(deposits.commitments[i]) = i - 1
              /\ deposits.commitments[i] = CommitmentAt(i - 1)

\* What does hold: the array holds the commitments of the returned logs in
\* increasing leafIndex order, and position i holds the commitment of
\* leafIndex i when the logs of all deposits were returned.
C28_OrderedByLeafIndex ==
    FetchedDeposits =>
        /\ Len(deposits.commitments) = Len(deposits.returned)
        /\ \A i, j \in 1..Len(deposits.commitments) :
              i < j => LeafIndexOf(deposits.commitments[i])
                          < LeafIndexOf(deposits.commitments[j])
        /\ deposits.commitments =
              [k \in 1..Len(deposits.returned) |->
                  CommitmentAt(InOrder(LeavesFrom(deposits.blocks,
                      IF deposits.fromBlock = {} THEN 0
                      ELSE CHOOSE b \in deposits.fromBlock : TRUE),
                      TRUE)[k] - 1)]
        /\ Len(deposits.returned) = Len(deposits.blocks) =>
              \A i \in 1..Len(deposits.commitments) :
                  deposits.commitments[i] = CommitmentAt(i - 1)

\* ------------------------------------- the watermark of watchAnnouncements
\* C27: the fromBlock of the scans and the watermark lastBlock never
\* decrease from one poll to the next, and a scan fetches no log of a block
\* below the watermark.
C27_WatermarkNeverDecreases ==
    [][/\ lastBlock' >= lastBlock
       /\ scanFromBlock' >= scanFromBlock
       /\ pollPc' = "scanning" => scanFromBlock' = lastBlock'
       /\ \A i \in 1..Len(fetched') : fetched'[i].blockNumber >= lastBlock'
      ]_vars

\* A later poll has fetched logs from a raised watermark, with a block
\* below it on the chain that holds an announcement.
C27_Witness ==
    /\ pollPc = "fetched"
    /\ scanFromBlock > initialFromBlock
    /\ scanFromBlock > 1
    /\ fetched # <<>>
    /\ chain[1] # <<>>

\* The last poll iteration failed: the loop is past a scan and the
\* watermark is still the block that scan started from.
ScanFailed == pollPc \in {"sleeping", "loop"} /\ lastBlock = scanFromBlock

\* C30: when scanAnnouncements throws, the poll goes on to its sleep with
\* the watermark, the running flag and the deliveries unchanged, the loop
\* goes on while not stopped, and the next scan starts from the block the
\* failed one started from.
C30_FailedScanKeepsWatermark ==
    [][/\ (pollPc = "scanning" /\ pollPc' \notin {"scanning", "fetched"}) =>
              /\ pollPc' = "sleeping"
              /\ lastBlock' = lastBlock
              /\ lastBlock' = scanFromBlock'
              /\ isRunning' = isRunning
              /\ delivered' = delivered
       /\ (ScanFailed /\ pollPc' # pollPc) =>
              /\ lastBlock' = lastBlock
              /\ pollPc = "sleeping" => pollPc' = "loop"
              /\ (pollPc = "loop" /\ isRunning) =>
                    pollPc' = "scanning" /\ scanFromBlock' = scanFromBlock
      ]_vars

\* A scan over a chain with a block failed and the loop goes on.
C30_Witness ==
    /\ ScanFailed
    /\ pollPc = "loop"
    /\ isRunning
    /\ chain # <<>>

====
